---- MODULE Spec2Model ----
(***************************************************************************)
(* Model of xylem's scope-stack context (src/src/typemap_context.rs) and   *)
(* of the identifier registry built on it (src/src/id.rs), driven through  *)
(* Xylem::convert (src/src/lib.rs).                                        *)
(*                                                                         *)
(* The schema is the one of tests/cross_id.rs with a third level:          *)
(*   Bar : Identifiable, Scope = ()                                        *)
(*   Qux : Identifiable, Scope = Bar                                       *)
(*   Baz : Identifiable, Scope = Qux                                       *)
(*   Foo : a plain object that holds references                            *)
(* Bar holds Qux children and may hold Bar children: the library           *)
(* discourages recursive types but does not forbid them (src/src/lib.rs).  *)
(***************************************************************************)
EXTENDS Integers, Sequences, FiniteSets, TLC

\* ------------------------------------------------------------------ bounds
\* Largest number of layers on the scope stack (root layer included).
MaxDepth == 4
\* Largest number of names kept under one path of a GlobalIdStore.
MaxTracked == 2
\* Largest number of structured values converted on one context.
MaxConverts == 4
\* Largest number of conversions that fail on one context.
MaxFailures == 1
\* Largest number of fields of a derive input.
MaxFields == 2
\* Largest number of elements of a Vec field.
MaxElems == 2
\* Largest number of attributes of a field.
MaxAttrs == 3
\* Largest number of layers, of structured values converted and of failed
\* conversions with the three-level schema.
NestedDepth == 5
NestedConverts == 4
NestedFailures == 1
\* Largest number of layers, of structured values converted and of failed
\* conversions with nested imports.
ImportDepth == 4
ImportConverts == 5
ImportFailures == 1
\* Largest number of layers while values are stored in the layers.
SlotDepth == 3
\* Largest number of layers, of structured values converted and of failed
\* conversions when a failed conversion is repeated.
RetryDepth == 6
RetryConverts == 3
RetryFailures == 2
\* Largest number of layers, of structured values converted and of failed
\* conversions with references in containers.
ContainerDepth == 4
ContainerConverts == 4
ContainerFailures == 1
\* Largest number of layers, of structured values converted and of failed
\* conversions while the ancestor walk is followed step by step.
WalkDepth == 5
WalkConverts == 3
WalkFailures == 1
IndexConverts == 3

\* ------------------------------------------------------------------ types
Names == {"a", "b"}

\* TypeId::of::<()>(): the key of the root layer.
Unit == "()"

\* The types that implement Identifiable.
Identifiable == {"Bar", "Qux", "Baz"}

\* The kinds of the two-level schema.
Shallow == {"Bar", "Qux"}

\* TypeId::of::<Vec<Id<S, Bar>>>()
VecType == "Vec<Id<Bar>>"

\* The types a convert call may be made for with start_scope / end_scope as
\* separate steps (their convert_impl converts fields in between): those of the
\* two-level schema.
StructTypes == {"Bar", "Qux", "Foo"}

\* The schema: the types of the fields of each type that are structured values
\* themselves (Unit: the types converted by top-level calls).  Bar holds its
\* Qux children and may nest in itself; Qux holds its Baz children; Foo holds
\* Id fields, alone or in a Vec; Baz holds only Id fields.
Fields(t) ==
    IF t = Unit THEN {"Bar", "Foo", "Qux"}
    ELSE IF t = "Bar" THEN {"Bar", "Qux"}
    ELSE IF t = "Qux" THEN {"Baz"}
    ELSE IF t = "Foo" THEN {VecType}
    ELSE {}

\* A schema in which every kind is scoped by the root.
ScopeRoot(X) == Unit

\* <X as Identifiable>::Scope
ScopeOf(X) == IF X = "Bar" THEN Unit ELSE IF X = "Baz" THEN "Qux" ELSE "Bar"

\* TypeId::of::<Id<S, X>>()
IdType(X) == IF X = "Bar" THEN "Id<Bar>" ELSE IF X = "Baz" THEN "Id<Baz>" ELSE "Id<Qux>"

\* The IdArgs of the Id fields of the schema.  A field of type Id<S, Bar>
\* declares (new), refers, or refers and imports the scope of Qux; a field of
\* type Id<S, Qux> declares, with or without track, or refers; a field of type
\* Id<S, Baz> declares with track, or refers.
IdArgs(X) ==
    IF X = "Bar"
    THEN {[new |-> TRUE, track |-> FALSE, import |-> {}],
          [new |-> FALSE, track |-> FALSE, import |-> {}],
          [new |-> FALSE, track |-> FALSE, import |-> {"Qux"}]}
    ELSE IF X = "Baz"
    THEN {[new |-> TRUE, track |-> TRUE, import |-> {}],
          [new |-> FALSE, track |-> FALSE, import |-> {}]}
    ELSE {[new |-> TRUE, track |-> FALSE, import |-> {}],
          [new |-> TRUE, track |-> TRUE, import |-> {}],
          [new |-> FALSE, track |-> FALSE, import |-> {}]}

\* The messages of the errors Id::convert_impl returns.
ErrDuplicate == "Duplicate ID"
ErrUnknown == "Unknown ID"
ErrNotTracked == "Attempted to import scope, but it was not tracked before"
ErrIdNotTracked == "Scope was successfully imported but the ID is not tracked"
ErrUseBefore == "Use of ID before registering the first one"
ErrMultiple == "Multiple new IDs defined"
\* The panics of the context.
PanicNotInStack == "Attempt to fetch from scope which is not in the stack"
PanicMismatch == "Scope mismatch"
\* The panic of an arithmetic overflow in a build with overflow checks.
PanicOverflow == "attempt to subtract with overflow"
PanicTooMany == "More than u32::MAX_VALUE IDs registered"
PanicTooManyIds == "Too many identifiers"

\* ------------------------------------------------------------------ helpers
Max(S) == CHOOSE x \in S : \A y \in S : y <= x

Range(s) == {s[i] : i \in 1..Len(s)}

\* Iterator::position: the 0-based index of the first element equal to x.
\* Only used where x occurs in s.
Position(s, x) == (CHOOSE i \in 1..Len(s) : s[i] = x /\ \A j \in 1..(i - 1) : s[j] # x) - 1

RECURSIVE Reverse(_)
Reverse(s) == IF s = <<>> THEN <<>> ELSE Append(Reverse(Tail(s)), Head(s))

\* An Option is a sequence of length 0 (None) or 1 (Some(v)).
None == <<>>
Some(v) == <<v>>

\* ------------------------------------------------------------------ state
VARIABLES
    layers,   \* DefaultContext::layers
    calls,    \* the Scope handles of the convert calls in progress, outermost first
    status,   \* "running", or the panic that aborted the process
    converts, \* the number of structured values converted so far
    failures, \* the number of top-level conversions that returned an error
    last,     \* the last operation and what it returned
    hist,     \* history: for each layer, the declarations made in its instance
    closed,   \* history: the Qux declarations of the Bar instances that ended
    everDeclared, \* history: the <<kind, name>> pairs declared so far
    build,    \* "debug" when debug assertions and overflow checks are compiled
              \* in (the dev profile), else "release"
    obj,      \* the derive input and the value of the derived conversion
    pc,       \* the position of the derived conversion in its body
    trace,    \* the steps the derived conversion has run, oldest first
    field,    \* the field whose attributes process_field is reading
    walk,     \* the ancestor walk of a tracked declaration in progress
    wide      \* a list of names given by its length alone, and the last
              \* conversion against it

\* The state of the context and its history.
ctx == <<layers, calls, status, converts, failures, last, hist, closed, everDeclared>>

\* The state of a conversion derived by the macro.
derived == <<obj, pc, trace>>

vars == <<layers, calls, status, converts, failures, last, hist, closed, everDeclared,
          build, obj, pc, trace, field, walk, wide>>

\* Layer { type_id, map: TypeMap::custom() }.  The TypeMap holds at most one
\* value per type: IdCounter<X> and GlobalIdStore<S, X> for each X, CurrentId,
\* ImportScope.  `import` is ImportScope::map, a layer without an ImportScope
\* having the empty map: the only reader, the loop over get_each, skips both.
NewLayer(t) ==
    [type_id |-> t,
     counter |-> [X \in Identifiable |-> None],
     current |-> None,
     import  |-> <<>>,
     store   |-> [X \in Identifiable |-> None]]

\* self.layers.iter().rev().find(|layer| layer.type_id == scope): the position
\* of the newest layer keyed by scope, 0 when there is none.
FindLayer(ls, scope) ==
    IF \A i \in 1..Len(ls) : ls[i].type_id # scope
    THEN 0
    ELSE CHOOSE i \in 1..Len(ls) :
            /\ ls[i].type_id = scope
            /\ \A j \in (i + 1)..Len(ls) : ls[j].type_id # scope

\* Context::nth_last_scope for an n smaller than the depth of the stack.
NthLastScope(ls, n) == ls[Len(ls) - n].type_id

\* What Id::convert_impl leaves behind: the stack, the error message or panic
\* ("ok" for Ok(id)), the index of the returned Id, and, for the "Multiple
\* new IDs" error, the index of the CurrentId found.
Result(ls, res, index, existing) ==
    [layers |-> ls, res |-> res, index |-> index, existing |-> existing]

Panics == {PanicNotInStack, PanicMismatch, PanicOverflow, PanicTooMany, PanicTooManyIds}

\* The result is an Err(..) returned to the caller.
IsErr(res) == res # "ok" /\ res \notin Panics

\* ------------------------------------------------------------------ declaring
\* A duplicate check that compares with the last name of the counter only.
IsDuplicateOfLast(names, from) == names # <<>> /\ names[Len(names)] = from

\* counter.names.iter().any(|other| other == &from)
IsDuplicate(names, from) == \E i \in 1..Len(names) : names[i] = from

\* An index that counts from one.
NewIndexFromOne(names) == Len(names) + 1

\* counter.names.len().try_into()
NewIndex(names) == Len(names)

\* A counter that inserts the new name at the front.
PushNameFront(names, from) == <<from>> \o names

\* counter.names.push(from.clone())
PushName(names, from) == Append(names, from)

\* get_mut::<IdCounter<X>, _>(.., Default::default) on layer l: the names of
\* the slot, created empty when the layer has none.
CounterNames(l, X) == IF l.counter[X] = None THEN <<>> ELSE l.counter[X][1]

\* A check that takes every CurrentId for a new one.
NeverDeclared(l) == FALSE

\* `!new` after get_mut::<CurrentId, _>: the layer already had a CurrentId.
AlreadyDeclared(l) == l.current # None

\* A CurrentId whose parent is the root whatever the scope of the kind.
NewCurrentIdOfRoot(X, index, from) == [id |-> index, parent |-> Unit, string |-> from]

\* CurrentId { id, parent, string }
NewCurrentId(X, index, from) == [id |-> index, parent |-> ScopeOf(X), string |-> from]

\* The loop `while let Some(parent_id) = context.get::<CurrentId>(next_parent)`:
\* the ids of the CurrentId records from next_parent upwards, nearest first.
RECURSIVE ParentIds(_, _)
ParentIds(ls, next_parent) ==
    LET i == FindLayer(ls, next_parent)
    IN  IF i = 0 \/ ls[i].current = None
        THEN <<>>
        ELSE <<ls[i].current[1].id>> \o ParentIds(ls, ls[i].current[1].parent)

\* A path that leaves out the ids of the enclosing scope objects.
TrackPathEmpty(ls, X) == <<>>

\* A path that keeps the order of the walk, nearest ancestor first.
TrackPathNearestFirst(ls, X) == ParentIds(ls, ScopeOf(X))

\* parent_ids after parent_ids.reverse()
TrackPath(ls, X) == Reverse(ParentIds(ls, ScopeOf(X)))

\* GlobalIdStore::ids of kind X in the root layer, empty when there is no store.
StoreIds(ls, X) ==
    LET r == FindLayer(ls, Unit)
    IN  IF ls[r].store[X] = None THEN <<>> ELSE ls[r].store[X][1]

\* A store that keeps only the newest name of a path.
TrackNewest(ls, X, from) ==
    LET r    == FindLayer(ls, Unit)
        path == TrackPath(ls, X)
    IN  [ls EXCEPT ![r].store[X] = Some((path :> <<from>>) @@ StoreIds(ls, X))]

\* store.ids.entry(parent_ids).or_default().push(from), the store being created
\* in the root layer when it has none.
Track(ls, X, from) ==
    LET r    == FindLayer(ls, Unit)
        path == TrackPath(ls, X)
        ids  == StoreIds(ls, X)
        old  == IF path \in DOMAIN ids THEN ids[path] ELSE <<>>
    IN  [ls EXCEPT ![r].store[X] = Some((path :> Append(old, from)) @@ ids)]

\* The same push for the parent_ids a walk has collected, before the reverse.
TrackWalked(ls, X, parent_ids, from) ==
    LET r    == FindLayer(ls, Unit)
        path == Reverse(parent_ids)
        ids  == StoreIds(ls, X)
        old  == IF path \in DOMAIN ids THEN ids[path] ELSE <<>>
    IN  [ls EXCEPT ![r].store[X] = Some((path :> Append(old, from)) @@ ids)]

\* A declaration that looks for the CurrentId of the object before it touches
\* the counter.
DeclareCurrentFirst(ls, X, from, args) ==
    LET s == FindLayer(ls, ScopeOf(X))
        c == FindLayer(ls, X)
    IN  IF s = 0 \/ c = 0 THEN Result(ls, PanicNotInStack, 0, 0) ELSE
        LET names == CounterNames(ls[s], X)
        IN  IF AlreadyDeclared(ls[c])
            THEN Result(ls, ErrMultiple, NewIndex(names), ls[c].current[1].id)
            ELSE IF IsDuplicate(names, from)
            THEN Result([ls EXCEPT ![s].counter[X] = Some(names)], ErrDuplicate, 0, 0)
            ELSE
        LET index == NewIndex(names)
            ls2   == [ls EXCEPT ![s].counter[X] = Some(PushName(names, from)),
                                ![c].current = Some(NewCurrentId(X, index, from))]
        IN  Result(IF args.track THEN Track(ls2, X, from) ELSE ls2, "ok", index, 0)

\* A declaration whose get_mut takes the newest layer of the stack when no
\* layer has the requested key.
DeclareNewestLayer(ls, X, from, args) ==
    LET s == IF FindLayer(ls, ScopeOf(X)) = 0 THEN Len(ls) ELSE FindLayer(ls, ScopeOf(X))
        names == CounterNames(ls[s], X)
    IN  IF IsDuplicate(names, from)
        THEN Result([ls EXCEPT ![s].counter[X] = Some(names)], ErrDuplicate, 0, 0)
        ELSE
        LET index == NewIndex(names)
            ls2   == [ls EXCEPT ![s].counter[X] = Some(PushName(names, from))]
            c     == IF FindLayer(ls2, X) = 0 THEN Len(ls2) ELSE FindLayer(ls2, X)
        IN  IF AlreadyDeclared(ls2[c])
            THEN Result(ls2, ErrMultiple, index, ls2[c].current[1].id)
            ELSE
        LET ls3 == [ls2 EXCEPT ![c].current = Some(NewCurrentId(X, index, from))]
        IN  Result(IF args.track THEN Track(ls3, X, from) ELSE ls3, "ok", index, 0)

\* Id::convert_impl with args.new
Declare(ls, X, from, args) ==
    LET s == FindLayer(ls, ScopeOf(X))
    IN  IF s = 0 THEN Result(ls, PanicNotInStack, 0, 0) ELSE
        LET names == CounterNames(ls[s], X)
        IN  IF IsDuplicate(names, from)
            THEN Result([ls EXCEPT ![s].counter[X] = Some(names)], ErrDuplicate, 0, 0)
            ELSE
        LET index == NewIndex(names)
            ls2   == [ls EXCEPT ![s].counter[X] = Some(PushName(names, from))]
            c     == FindLayer(ls2, X)
        IN  IF c = 0 THEN Result(ls2, PanicNotInStack, index, 0) ELSE
            IF AlreadyDeclared(ls2[c])
            THEN Result(ls2, ErrMultiple, index, ls2[c].current[1].id)
            ELSE
        LET ls3 == [ls2 EXCEPT ![c].current = Some(NewCurrentId(X, index, from))]
        IN  Result(IF args.track THEN Track(ls3, X, from) ELSE ls3, "ok", index, 0)

\* ------------------------------------------------------------------ resolving
\* A scan that takes the outermost ImportScope with an entry for X.
ImportLayerOutermost(ls, X) ==
    LET S == {i \in 1..Len(ls) : X \in DOMAIN ls[i].import}
    IN  IF S = {} THEN 0 ELSE CHOOSE i \in S : \A j \in S : i <= j

\* The first ImportScope, from the top of the stack, whose map has an entry for
\* X (the loop over context.get_each::<ImportScope>()); 0 when there is none.
ImportLayer(ls, X) ==
    LET S == {i \in 1..Len(ls) : X \in DOMAIN ls[i].import}
    IN  IF S = {} THEN 0 ELSE Max(S)

\* A search that answers with the first index when the name is absent.
FindOrFirst(names, from) ==
    [res |-> "ok", index |-> IF from \in Range(names) THEN Position(names, from) ELSE 0]

\* names.iter().position(|other| other == &from), or "Unknown ID"
Find(names, from) ==
    IF from \in Range(names)
    THEN [res |-> "ok", index |-> Position(names, from)]
    ELSE [res |-> ErrUnknown, index |-> 0]

\* A resolution through an import that takes a missing store or a missing
\* path for an empty list of names.
LookupImportedLenient(ls, X, from) ==
    LET i == ImportLayer(ls, X)
    IN  IF i = 0 THEN [res |-> ErrUseBefore, index |-> 0] ELSE
        LET id == ls[i].import[X]
            r  == FindLayer(ls, Unit)
        IN  IF ls[r].store[X] = None \/ id \notin DOMAIN ls[r].store[X][1]
            THEN [res |-> ErrUnknown, index |-> 0]
            ELSE Find(ls[r].store[X][1][id], from)

\* A resolution through an import that takes the entry of any path ending with
\* the imported index.
LookupImportedAnyDepth(ls, X, from) ==
    LET i == ImportLayer(ls, X)
    IN  IF i = 0 THEN [res |-> ErrUseBefore, index |-> 0] ELSE
        LET id == ls[i].import[X]
            r  == FindLayer(ls, Unit)
        IN  IF ls[r].store[X] = None THEN [res |-> ErrNotTracked, index |-> 0] ELSE
            LET S == {p \in DOMAIN ls[r].store[X][1] : p # <<>> /\ p[Len(p)] = id[Len(id)]}
            IN  IF S = {} THEN [res |-> ErrIdNotTracked, index |-> 0]
                ELSE Find(ls[r].store[X][1][CHOOSE p \in S : TRUE], from)

\* The None arm of the match on get::<IdCounter<X>>: resolve through an import.
LookupImported(ls, X, from) ==
    LET i == ImportLayer(ls, X)
    IN  IF i = 0 THEN [res |-> ErrUseBefore, index |-> 0] ELSE
        LET id == ls[i].import[X]
            r  == FindLayer(ls, Unit)
        IN  IF ls[r].store[X] = None THEN [res |-> ErrNotTracked, index |-> 0] ELSE
            IF id \notin DOMAIN ls[r].store[X][1] THEN [res |-> ErrIdNotTracked, index |-> 0]
            ELSE Find(ls[r].store[X][1][id], from)

\* A lookup that creates the IdCounter of the scope layer when it is missing.
LookupCreating(ls, X, from) ==
    LET s == FindLayer(ls, ScopeOf(X))
    IN  IF s # 0
        THEN Find(CounterNames(ls[s], X), from)
        ELSE LookupImported(ls, X, from)

\* A lookup that goes through an import whenever a layer holds one for X.
LookupImportFirst(ls, X, from) ==
    LET s == FindLayer(ls, ScopeOf(X))
    IN  IF ImportLayer(ls, X) = 0 /\ s # 0 /\ ls[s].counter[X] # None
        THEN Find(ls[s].counter[X][1], from)
        ELSE LookupImported(ls, X, from)

\* The index a reference resolves to: against the IdCounter of the newest layer
\* keyed by X::Scope when that layer has one, else through an import.
Lookup(ls, X, from) ==
    LET s == FindLayer(ls, ScopeOf(X))
    IN  IF s # 0 /\ ls[s].counter[X] # None
        THEN Find(ls[s].counter[X][1], from)
        ELSE LookupImported(ls, X, from)

\* An import written to the layer of the importing field itself.
WriteImportsOwnLayer(ls, import, index) ==
    [ls EXCEPT ![Len(ls)].import =
        [K \in import \cup DOMAIN @ |-> IF K \in import THEN <<index>> ELSE @[K]]]

\* An import written to the layer of the object that encloses the reference,
\* below the layers of the containers the reference is in.
WriteImportsEnclosing(ls, import, index) ==
    LET t == Max({i \in 1..(Len(ls) - 1) : ls[i].type_id # VecType})
    IN  [ls EXCEPT ![t].import =
            [K \in import \cup DOMAIN @ |-> IF K \in import THEN <<index>> ELSE @[K]]]

\* An import that keeps the entry a layer already has for a kind.
WriteImportsKeepFirst(ls, import, index) ==
    LET t   == FindLayer(ls, NthLastScope(ls, 1))
        old == ls[t].import
    IN  [ls EXCEPT ![t].import =
            [K \in import \cup DOMAIN old |-> IF K \in DOMAIN old THEN old[K] ELSE <<index>>]]

\* get_mut::<ImportScope, _>(nth_last_scope(1), Default::default) followed by
\* import.map.insert(imported, vec![index]) for each imported kind.
WriteImports(ls, import, index) ==
    LET t   == FindLayer(ls, NthLastScope(ls, 1))
        old == ls[t].import
    IN  [ls EXCEPT ![t].import =
            [K \in import \cup DOMAIN old |-> IF K \in import THEN <<index>> ELSE old[K]]]

\* A resolution that answers an unknown name with the first index.
ResolveOrFirst(ls, X, from, args) ==
    LET f == Lookup(ls, X, from)
    IN  IF f.res \in {"ok", ErrUnknown}
        THEN Result(WriteImports(ls, args.import, f.index), "ok", f.index, 0)
        ELSE Result(ls, f.res, 0, 0)

\* A resolution that writes its imports before it knows the index.
ResolveImportFirst(ls, X, from, args) ==
    LET f == Lookup(ls, X, from)
    IN  Result(WriteImports(ls, args.import, f.index), f.res, f.index, 0)

\* Id::convert_impl without args.new
Resolve(ls, X, from, args) ==
    LET f == Lookup(ls, X, from)
    IN  IF f.res # "ok"
        THEN Result(ls, f.res, 0, 0)
        ELSE Result(WriteImports(ls, args.import, f.index), "ok", f.index, 0)

\* A convert_impl that restores the stack it was given when it fails.
IdConvertImplRollback(ls, X, from, args) ==
    LET r == IF args.new THEN Declare(ls, X, from, args) ELSE Resolve(ls, X, from, args)
    IN  IF r.res = "ok" THEN r ELSE Result(ls, r.res, r.index, r.existing)

\* <Id<S, X> as Xylem<S>>::convert_impl
IdConvertImpl(ls, X, from, args) ==
    IF args.new THEN Declare(ls, X, from, args) ELSE Resolve(ls, X, from, args)

\* ------------------------------------------------------------------ the stack
\* A start_scope that pushes every layer with the key of the root.
StartScopeUnkeyed(ls, t) == Append(ls, NewLayer(Unit))

\* DefaultContext::start_scope: the stack after the push.
StartScope(ls, t) == Append(ls, NewLayer(t))

\* The Scope handle start_scope returns.
ScopeHandle(ls, t) == [type_id |-> t, index |-> Len(ls)]

\* An end_scope that pops two layers.
EndScopeTwo(ls) == SubSeq(ls, 1, Len(ls) - 2)

\* DefaultContext::end_scope: the stack after the pop.
EndScope(ls) == SubSeq(ls, 1, Len(ls) - 1)

\* The two debug_assert_eq! of end_scope.
EndScopeAsserts(ls, scope) ==
    /\ scope.type_id = ls[Len(ls)].type_id
    /\ scope.index = Len(ls) - 1

\* The status of the process after end_scope(scope) on stack ls: the two
\* debug_assert_eq! are compiled in only when the build has debug assertions.
EndScopeStatus(ls, scope, b, st) ==
    IF b = "debug" /\ ~EndScopeAsserts(ls, scope) THEN PanicMismatch ELSE st

\* Every list of tracked names is within the bound of the model.
WithinBounds(ls) ==
    \A X \in Identifiable :
        LET ids == StoreIds(ls, X)
        IN  \A p \in DOMAIN ids : Len(ids[p]) <= MaxTracked

NoArgs == [new |-> FALSE, track |-> FALSE, import |-> {}]

\* The record of an operation: `live` is the number of convert calls of
\* structured values that were in progress when it ran.
Op(op, kind, name, args, res, index, existing, live) ==
    [op |-> op, kind |-> kind, name |-> name, args |-> args,
     res |-> res, index |-> index, existing |-> existing, live |-> live]

\* ------------------------------------------------------------------ history
\* The newest layer of the stack whose key is t, 0 when there is none: the
\* instance of t a declaration or a reference made now belongs to.
NewestKeyed(ls, t) ==
    LET S == {i \in 1..Len(ls) : ls[i].type_id = t}
    IN  IF S = {} THEN 0 ELSE Max(S)

\* The scope kind of each kind, as the schema declares it.
KindScope(X) == IF X = "Bar" THEN Unit ELSE IF X = "Baz" THEN "Qux" ELSE "Bar"

\* The history of a layer.
\*   log[X]: the declarations of kind X made with pairwise-distinct names
\*     while the layer was the newest one keyed by X's scope: the name, the
\*     index of the Id returned (-1 when none was returned), the track
\*     argument, and whether the scope instance had not yet declared its own
\*     id (early);
\*   own: the index returned to the instance's own declaration, -1 before it;
\*   imp: for each kind imported by a reference converted directly in this
\*     instance, the index that reference resolved to;
\*   was: the kinds this instance imported and then imported again through
\*     a reference that resolved to another index;
\*   via: the kinds imported by the references converted in the containers of
\*     this instance whose conversion has ended.
NewHist ==
    [log |-> [X \in Identifiable |-> <<>>], own |-> -1, imp |-> <<>>, was |-> {}, via |-> {}]

LogNames(log) == {log[i].name : i \in 1..Len(log)}

\* The position of name n in a log, counted from 0.
LogIndex(log, n) == (CHOOSE i \in 1..Len(log) : log[i].name = n) - 1

\* The index returned when name n of a log was declared.
LogRet(log, n) == log[LogIndex(log, n) + 1].ret

\* The history after Id::convert of kind X ran on the stack ls (the Id's layer
\* on top) and returned r.
Record(h, ls, X, from, args, r) ==
    LET t  == NewestKeyed(ls, KindScope(X))
        c  == NewestKeyed(ls, X)
        e  == Len(ls) - 1
        h1 == IF args.new /\ t # 0 /\ from \notin LogNames(h[t].log[X])
              THEN [h EXCEPT ![t].log[X] = Append(@,
                       [name  |-> from,
                        ret   |-> IF r.res = "ok" THEN r.index ELSE -1,
                        track |-> args.track,
                        early |-> h[t].own = -1])]
              ELSE h
        h2 == IF args.new /\ r.res = "ok" /\ c # 0
              THEN [h1 EXCEPT ![c].own = r.index]
              ELSE h1
    IN  IF ~args.new /\ r.res = "ok"
        THEN [h2 EXCEPT ![e].imp =
                 [K \in args.import \cup DOMAIN @ |->
                     IF K \in args.import THEN r.index ELSE @[K]],
                        ![e].was = @ \cup
                 {K \in args.import \cap DOMAIN h2[e].imp : h2[e].imp[K] # r.index}]
        ELSE h2

\* ------------------------------------------------------------------ actions
\* No derived conversion is running.
NoObj == [process |-> FALSE, pre |-> "ok", post |-> "ok", fields |-> <<>>]
NoDerived == obj = NoObj /\ pc = [at |-> "idle", stmt |-> 0, elem |-> 0, ret |-> ""] /\ trace = <<>>

\* process_field is not running.
NoField ==
    field = [attrs |-> <<>>, rest |-> <<>>, mode |-> "idle", context |-> FALSE,
             arg_defs |-> 0, err |-> "", conv |-> "", passed |-> 0]

\* No tracked declaration is walking up its ancestors.
NoWalk == walk = [at |-> "idle", kind |-> Unit, name |-> "", index |-> 0,
                  next_parent |-> Unit, parent_ids |-> <<>>, visited |-> <<>>]

\* A usize as two digits in base 2^16: the value is hi * 2^16 + lo.  A u32 is
\* a usize with hi < 2^16.
U32Base == 65536
Usize(hi, lo) == [hi |-> hi, lo |-> lo]

\* No list of names is given by its length.
NoWide == wide = [list |-> "none", len |-> Usize(0, 0), op |-> "none", res |-> "ok",
                  at |-> Usize(0, 0), index |-> Usize(0, 0), imported |-> FALSE]

\* DefaultContext::default()
FreshContext ==
    /\ layers = <<NewLayer(Unit)>>
    /\ calls = <<>>
    /\ status = "running"
    /\ converts = 0
    /\ failures = 0
    /\ last = Op("default", Unit, "", NoArgs, "ok", 0, 0, 0)
    /\ hist = <<NewHist>>
    /\ closed = <<>>
    /\ everDeclared = {}

\* The nested convert calls of this specification never fail an assertion of
\* end_scope, so one build stands for both.
Init == FreshContext /\ build = "debug" /\ NoDerived /\ NoField /\ NoWalk /\ NoWide

\* The type whose convert_impl is running: the type of the innermost convert
\* call in progress, Unit for the caller of the top-level conversions.
Current == IF calls = <<>> THEN Unit ELSE calls[Len(calls)].type_id

\* Xylem::convert of a structured value, up to the call of its convert_impl,
\* on a stack of fewer than `depth` layers and after fewer than `quota` such
\* calls.
Begin(t, depth, quota) ==
    /\ status = "running"
    /\ t \in Fields(Current)
    /\ Len(layers) < depth
    /\ converts < quota
    /\ converts' = converts + 1
    /\ layers' = StartScope(layers, t)
    /\ calls' = Append(calls, ScopeHandle(layers, t))
    /\ last' = Op("start_scope", t, "", NoArgs, "ok", 0, 0, Len(calls))
    /\ hist' = Append(hist, NewHist)
    /\ UNCHANGED <<status, failures, closed, everDeclared, build, derived, field, walk, wide>>

\* Xylem::convert of a structured value within the bounds of the two-level
\* schema.
ConvertBegin(t) == Begin(t, MaxDepth, MaxConverts)

\* Xylem::convert of a structured value, after its convert_impl returned Ok.
ConvertEnd ==
    /\ status = "running"
    /\ calls # <<>>
    /\ LET scope == calls[Len(calls)]
           h     == hist[Len(hist)]
       IN  /\ layers' = EndScope(layers)
           /\ calls' = SubSeq(calls, 1, Len(calls) - 1)
           /\ status' = EndScopeStatus(layers, scope, build, status)
           /\ last' = Op("end_scope", scope.type_id, "", NoArgs, "ok", 0, 0, Len(calls))
           /\ hist' = IF scope.type_id = VecType
                      THEN [SubSeq(hist, 1, Len(hist) - 1) EXCEPT
                               ![Len(hist) - 1].via = @ \cup DOMAIN h.imp]
                      ELSE SubSeq(hist, 1, Len(hist) - 1)
           /\ closed' = IF scope.type_id = "Bar" /\ h.own # -1
                        THEN (h.own :> h.log["Qux"]) @@ closed
                        ELSE closed
           /\ UNCHANGED <<converts, failures, everDeclared, build, derived, field, walk, wide>>

\* A convert that ends its scope whatever convert_impl returned.
AfterConvertImplPopping(ls, res) == EndScope(ls)

\* The stack Xylem::convert leaves when its convert_impl returned res on stack
\* ls: the `?` returns an Err at once, end_scope runs after an Ok only.
AfterConvertImpl(ls, res) == IF res = "ok" THEN EndScope(ls) ELSE ls

\* Xylem::convert of an Id<S, X> field: start_scope, convert_impl and, when it
\* returned Ok, end_scope.  An Err is passed up by the `?` of every convert call
\* in progress, none of which ends its scope; a panic aborts the process.
\* The stack has fewer than `depth` layers and fewer than `quota` conversions
\* have failed.
IdConvertWithin(X, from, args, depth, quota) ==
    /\ status = "running"
    /\ calls # <<>>
    /\ Len(layers) < depth
    /\ \E pushed \in {StartScope(layers, IdType(X))} :
       \E r \in {IdConvertImpl(pushed, X, from, args)} :
       \E h \in {Record(Append(hist, NewHist), pushed, X, from, args, r)} :
       LET scope == ScopeHandle(layers, IdType(X))
       IN  /\ WithinBounds(r.layers)
           /\ IsErr(r.res) => failures < quota
           /\ failures' = IF IsErr(r.res) THEN failures + 1 ELSE failures
           /\ last' = Op("convert", X, from, args, r.res, r.index, r.existing, Len(calls))
           /\ everDeclared' = IF args.new /\ NewestKeyed(pushed, KindScope(X)) # 0
                              THEN everDeclared \cup {<<X, from>>}
                              ELSE everDeclared
           /\ layers' = AfterConvertImpl(r.layers, r.res)
           /\ IF r.res = "ok"
              THEN /\ hist' = SubSeq(h, 1, Len(h) - 1)
                   /\ status' = EndScopeStatus(r.layers, scope, build, status)
                   /\ UNCHANGED calls
              ELSE /\ hist' = h
                   /\ calls' = IF r.res \in Panics THEN calls ELSE <<>>
                   /\ status' = IF r.res \in Panics THEN r.res ELSE status
           /\ UNCHANGED <<converts, closed, build, derived, field, walk, wide>>

\* Xylem::convert of an Id<S, X> field within the bounds of the two-level
\* schema.
IdConvert(X, from, args) == IdConvertWithin(X, from, args, MaxDepth, MaxFailures)

Next ==
    \/ \E t \in StructTypes : ConvertBegin(t)
    \/ ConvertEnd
    \/ \E X \in Shallow, from \in Names : \E args \in IdArgs(X) : IdConvert(X, from, args)

Spec == Init /\ [][Next]_vars

\* ------------------------------------------------------------------ three levels
\* The same conversions with the three-level schema
\*   struct Bar { id: Id<Bar> (new), refs to Bar importing the scope of Baz,
\*                refs to Baz, quxes: Vec<Qux>, bar: Box<Bar> }
\*   struct Qux { id: Id<Qux> (new, track), bazes: Vec<Baz> }
\*   struct Baz { id: Id<Baz> (new, track) }
\* converted by top-level calls for Bar, on a context the caller drops after
\* the first error.

\* The types converted with the three-level schema.
NestedTypes == {"Bar", "Qux", "Baz"}

Declaring == [new |-> TRUE, track |-> FALSE, import |-> {}]
Tracking == [new |-> TRUE, track |-> TRUE, import |-> {}]
ImportingOf(K) == [new |-> FALSE, track |-> FALSE, import |-> {K}]

\* The Id fields of each type of the three-level schema: the kind and the
\* IdArgs of the field's attribute.
NestedIds(t) ==
    IF t = "Bar"
    THEN {<<"Bar", Declaring>>, <<"Bar", ImportingOf("Baz")>>, <<"Baz", NoArgs>>}
    ELSE IF t = "Qux" THEN {<<"Qux", Tracking>>}
    ELSE IF t = "Baz" THEN {<<"Baz", Tracking>>}
    ELSE {}

NestedBegin(t) ==
    /\ Current = Unit => (t = "Bar" /\ failures = 0)
    /\ Begin(t, NestedDepth, NestedConverts)

NestedId(X, from, args) ==
    /\ <<X, args>> \in NestedIds(Current)
    /\ IdConvertWithin(X, from, args, NestedDepth, NestedFailures)

NestedNext ==
    \/ \E t \in NestedTypes : NestedBegin(t)
    \/ ConvertEnd
    \/ \E X \in Identifiable, from \in Names :
          \E args \in {Declaring, Tracking, ImportingOf("Baz"), NoArgs} :
              NestedId(X, from, args)

NestedSpec == Init /\ [][NestedNext]_vars

\* ------------------------------------------------------------------ nested imports
\* The conversions of the two-level schema
\*   struct Bar { id: Id<Bar> (new), refs to Bar importing the scope of Qux,
\*                refs to Qux, quxes: Vec<Qux>, bar: Box<Bar> }
\*   struct Qux { id: Id<Qux> (new, track) }
\* by top-level calls for Bar, on a context the caller drops after the first
\* error.

\* The Id fields of each type: the kind and the IdArgs of the field's attribute.
ImportIds(t) ==
    IF t = "Bar"
    THEN {<<"Bar", Declaring>>, <<"Bar", ImportingOf("Qux")>>, <<"Qux", NoArgs>>}
    ELSE IF t = "Qux" THEN {<<"Qux", Tracking>>}
    ELSE {}

ImportBegin(t) ==
    /\ Current = Unit => (t = "Bar" /\ failures = 0)
    /\ Begin(t, ImportDepth, ImportConverts)

ImportId(X, from, args) ==
    /\ <<X, args>> \in ImportIds(Current)
    /\ IdConvertWithin(X, from, args, ImportDepth, ImportFailures)

ImportNext ==
    \/ \E t \in Shallow : ImportBegin(t)
    \/ ConvertEnd
    \/ \E X \in Shallow, from \in Names :
          \E args \in {Declaring, Tracking, ImportingOf("Qux"), NoArgs} :
              ImportId(X, from, args)

ImportSpec == Init /\ [][ImportNext]_vars

\* ------------------------------------------------------------------ repeated conversions
\* The two-level schema
\*   struct Bar { id: Id<Bar> (new), qux: Vec<Qux>, refs to Qux }
\*   struct Qux { id: Id<Qux> (new, track) }
\* converted by top-level calls for Bar that the caller repeats on the same
\* context after an error.
RetryIds(t) ==
    IF t = "Bar" THEN {<<"Bar", Declaring>>, <<"Qux", NoArgs>>}
    ELSE IF t = "Qux" THEN {<<"Qux", Tracking>>}
    ELSE {}

\* The names of the values converted.
RetryNames == {"a", "b", "c"}

RetryBegin(t) ==
    /\ Current = Unit => t = "Bar"
    /\ Current # Unit => t = "Qux"
    /\ Begin(t, RetryDepth, RetryConverts)

RetryId(X, from, args) ==
    /\ <<X, args>> \in RetryIds(Current)
    /\ IdConvertWithin(X, from, args, RetryDepth, RetryFailures)

RetryNext ==
    \/ \E t \in Shallow : RetryBegin(t)
    \/ ConvertEnd
    \/ \E X \in Shallow, from \in RetryNames :
          \E args \in {Declaring, Tracking, NoArgs} : RetryId(X, from, args)

RetrySpec == Init /\ [][RetryNext]_vars

\* ------------------------------------------------------------------ containers
\* The schema of tests/cross_id.rs with the importing reference of Foo in a
\* container:
\*   struct Bar { id: Id<Bar> (new), qux: Vec<Qux> }
\*   struct Qux { id: Id<Qux> (new, track) }
\*   struct Foo { bar: Id<Bar> (import Qux), bars: Vec<Id<Bar>> (import Qux),
\*                qux: Id<Qux> }
\* The conversion of a Vec pushes a layer of its own and converts each element
\* with the args of the field; an Option or a Box does the same for its one
\* value.  Top-level calls are made for Bar and Foo, on a context the caller
\* drops after the first error.
ContainerTypes == {"Bar", "Qux", "Foo", VecType}

ContainerFields(t) ==
    IF t = Unit THEN {"Bar", "Foo"}
    ELSE IF t = "Bar" THEN {"Qux"}
    ELSE IF t = "Foo" THEN {VecType}
    ELSE {}

ContainerIds(t) ==
    IF t = "Bar" THEN {<<"Bar", Declaring>>}
    ELSE IF t = "Qux" THEN {<<"Qux", Tracking>>}
    ELSE IF t = "Foo" THEN {<<"Bar", ImportingOf("Qux")>>, <<"Qux", NoArgs>>}
    ELSE IF t = VecType THEN {<<"Bar", ImportingOf("Qux")>>}
    ELSE {}

ContainerBegin(t) ==
    /\ t \in ContainerFields(Current)
    /\ Current = Unit => failures = 0
    /\ Begin(t, ContainerDepth, ContainerConverts)

ContainerId(X, from, args) ==
    /\ <<X, args>> \in ContainerIds(Current)
    /\ IdConvertWithin(X, from, args, ContainerDepth, ContainerFailures)

ContainerNext ==
    \/ \E t \in ContainerTypes : ContainerBegin(t)
    \/ ConvertEnd
    \/ \E X \in Shallow, from \in Names :
          \E args \in {Declaring, Tracking, ImportingOf("Qux"), NoArgs} :
              ContainerId(X, from, args)

ContainerSpec == Init /\ [][ContainerNext]_vars

\* ------------------------------------------------------------------ the Context API
\* Code that holds the context calls start_scope and end_scope itself (the
\* methods of the Context trait are public).  A Scope handle is neither Clone
\* nor Copy and end_scope takes it by value, so each handle returned by
\* start_scope is passed to end_scope at most once, in any order; `calls` holds
\* the handles not yet passed.

\* context.start_scope::<T>()
ApiStartScope(t) ==
    /\ status = "running"
    /\ Len(layers) < MaxDepth
    /\ layers' = StartScope(layers, t)
    /\ calls' = Append(calls, ScopeHandle(layers, t))
    /\ last' = Op("start_scope", t, "", NoArgs, "ok", Len(layers), 0, Len(calls))
    /\ UNCHANGED <<status, converts, failures, hist, closed, everDeclared, build,
                   derived, field, walk, wide>>

\* context.end_scope(scope) with the k-th of the handles held.  The stack is
\* never empty here: there is one handle for each layer above the root.
ApiEndScope(k) ==
    /\ status = "running"
    /\ k \in 1..Len(calls)
    /\ LET scope == calls[k]
       IN  /\ layers' = EndScope(layers)
           /\ calls' = [i \in 1..(Len(calls) - 1) |-> IF i < k THEN calls[i] ELSE calls[i + 1]]
           /\ status' = EndScopeStatus(layers, scope, build, status)
           /\ last' = Op("end_scope", scope.type_id, "", NoArgs,
                         EndScopeStatus(layers, scope, build, "ok"), scope.index, 0,
                         Len(calls))
    /\ UNCHANGED <<converts, failures, hist, closed, everDeclared, build, derived, field, walk, wide>>

\* The keys a caller passes to get and get_mut.
ApiKeys == StructTypes \cup {Unit}

\* The values a caller stores: a CurrentId with id v.
ApiValue(v) == [id |-> v, parent |-> Unit, string |-> ""]

\* A get that returns the slot of the newest layer of that key that has one.
GetAnySlot(ls, scope) ==
    LET S == {i \in 1..Len(ls) : ls[i].type_id = scope /\ ls[i].current # None}
    IN  IF S = {} THEN None ELSE ls[Max(S)].current

\* DefaultContext::get::<CurrentId>(scope): the slot of the newest layer keyed
\* by scope, None when that layer has no slot or no layer has the key.
Get(ls, scope) ==
    LET i == FindLayer(ls, scope)
    IN  IF i = 0 THEN None ELSE ls[i].current

\* DefaultContext::get_mut::<CurrentId, _>(scope, default): the stack after
\* entry(..).or_insert_with(default) on the newest layer keyed by scope.
GetMut(ls, scope, default) ==
    LET i == FindLayer(ls, scope)
    IN  [ls EXCEPT ![i].current = IF @ = None THEN Some(default) ELSE @]

\* usize arithmetic wraps modulo 2^w without overflow checks; the model keeps
\* w = 16 bits of it.
UsizeModulus == 65536

\* self.layers.len() - n - 1 in usize.
NthLastIndex(ls, n) == (Len(ls) - n - 1) % UsizeModulus

\* DefaultContext::nth_last_scope(n) in build b: the subtraction panics when
\* it overflows with overflow checks and wraps without them; Vec::get then
\* answers None for an index that is not in the stack.
NthLastScopeOf(ls, n, b) ==
    IF b = "debug" /\ Len(ls) - n - 1 < 0
    THEN [res |-> PanicOverflow, key |-> ""]
    ELSE IF NthLastIndex(ls, n) < Len(ls)
    THEN [res |-> "some", key |-> ls[NthLastIndex(ls, n) + 1].type_id]
    ELSE [res |-> "none", key |-> ""]

ApiFrame == UNCHANGED <<converts, failures, hist, closed, everDeclared, build, derived, field, walk, wide>>

\* *context.get_mut::<CurrentId, _>(scope, || ApiValue(v)), which panics when
\* no layer has the key.
ApiGetMut(scope, v) ==
    /\ status = "running"
    /\ IF FindLayer(layers, scope) = 0
       THEN /\ status' = PanicNotInStack
            /\ last' = Op("get_mut", scope, "", NoArgs, PanicNotInStack, 0, 0, Len(calls))
            /\ UNCHANGED layers
       ELSE /\ layers' = GetMut(layers, scope, ApiValue(v))
            /\ last' = Op("get_mut", scope, "", NoArgs, "some",
                          Get(GetMut(layers, scope, ApiValue(v)), scope)[1].id, 0, Len(calls))
            /\ UNCHANGED status
    /\ UNCHANGED calls
    /\ ApiFrame

\* context.get::<CurrentId>(scope)
ApiGet(scope) ==
    /\ status = "running"
    /\ last' = IF Get(layers, scope) = None
               THEN Op("get", scope, "", NoArgs, "none", 0, 0, Len(calls))
               ELSE Op("get", scope, "", NoArgs, "some", Get(layers, scope)[1].id, 0, Len(calls))
    /\ UNCHANGED <<layers, calls, status>>
    /\ ApiFrame

\* context.nth_last_scope(n)
ApiNthLastScope(n) ==
    /\ status = "running"
    /\ LET r == NthLastScopeOf(layers, n, build)
       IN  /\ last' = Op("nth_last_scope", r.key, "", NoArgs, r.res, n, 0, Len(calls))
           /\ status' = IF r.res \in Panics THEN r.res ELSE status
    /\ UNCHANGED <<layers, calls>>
    /\ ApiFrame

ApiInit ==
    FreshContext /\ build \in {"debug", "release"} /\ NoDerived /\ NoField /\ NoWalk /\ NoWide

ApiNext ==
    \/ \E t \in StructTypes : ApiStartScope(t)
    \/ \E k \in 1..MaxDepth : ApiEndScope(k)
    \/ \E n \in 0..MaxDepth : ApiNthLastScope(n)

ApiSpec == ApiInit /\ [][ApiNext]_vars

\* The storage of the layers: scopes of the two kinds are opened and closed
\* while values are stored in and read from the layers.
SlotStartScope(t) == Len(layers) < SlotDepth /\ ApiStartScope(t)

SlotNext ==
    \/ \E t \in Shallow : SlotStartScope(t)
    \/ \E k \in 1..SlotDepth : ApiEndScope(k)
    \/ \E scope \in ApiKeys, v \in 0..1 : ApiGetMut(scope, v)
    \/ \E scope \in ApiKeys : ApiGet(scope)

SlotSpec == ApiInit /\ [][SlotNext]_vars

\* ------------------------------------------------------------------ the ancestor walk
\* The three-level schema
\*   struct Bar { id: Id<Bar> (new), quxes: Vec<Qux> }
\*   struct Qux { id: Id<Qux> (new, track), bazes: Vec<Baz> }
\*   struct Baz { id: Id<Baz> (new, track) }
\* with the loop of a tracked declaration,
\*   while let Some(parent_id) = context.get::<CurrentId>(next_parent) { .. },
\* followed one iteration at a time.  A declaration that is not tracked or
\* that fails before the loop is one step, as elsewhere.

\* The kinds of the scope chain of X, nearest first, up to the root.
RECURSIVE ScopeChain(_)
ScopeChain(X) ==
    IF ScopeOf(X) = Unit THEN <<>> ELSE <<ScopeOf(X)>> \o ScopeChain(ScopeOf(X))

\* A walk that looks at the same layer again.
NextParentSame(ls, next_parent) == next_parent

\* next_parent = parent_id.parent
NextParent(ls, next_parent) == Get(ls, next_parent)[1].parent

WalkIds(t) ==
    IF t = "Bar" THEN {<<"Bar", Declaring>>}
    ELSE IF t = "Qux" THEN {<<"Qux", Tracking>>}
    ELSE IF t = "Baz" THEN {<<"Baz", Tracking>>}
    ELSE {}

\* The declaration of X from name `from` up to `if args.track`.
BeforeTrack(X, from) == Declare(StartScope(layers, IdType(X)), X, from, Declaring)

WalkBegin(t) ==
    /\ walk.at = "idle"
    /\ Current = Unit => (t = "Bar" /\ failures = 0)
    /\ t = "Bar" => Current = Unit
    /\ Begin(t, WalkDepth, WalkConverts)

WalkConvertEnd == walk.at = "idle" /\ ConvertEnd

\* Xylem::convert of an Id whose convert_impl does not reach the loop.
WalkId(X, from, args) ==
    /\ walk.at = "idle"
    /\ <<X, args>> \in WalkIds(Current)
    /\ args.track => BeforeTrack(X, from).res # "ok"
    /\ IdConvertWithin(X, from, args, WalkDepth, WalkFailures)

\* Xylem::convert of an Id with track = true, up to the loop: start_scope, the
\* counter and the CurrentId, parent_ids = Vec::new() and
\* next_parent = TypeId::of::<X::Scope>().
WalkStart(X, from) ==
    /\ walk.at = "idle"
    /\ status = "running"
    /\ calls # <<>>
    /\ <<X, Tracking>> \in WalkIds(Current)
    /\ Len(layers) < WalkDepth
    /\ LET r == BeforeTrack(X, from)
       IN  /\ r.res = "ok"
           /\ WithinBounds(Track(r.layers, X, from))
           /\ layers' = r.layers
           /\ walk' = [at |-> "walking", kind |-> X, name |-> from, index |-> r.index,
                       next_parent |-> ScopeOf(X), parent_ids |-> <<>>, visited |-> <<>>]
    /\ UNCHANGED <<calls, status, converts, failures, last, hist, closed, everDeclared,
                   build, derived, field, wide>>

\* One iteration of the loop: parent_ids.push(parent_id.id) and
\* next_parent = parent_id.parent.
WalkStep ==
    /\ walk.at = "walking"
    /\ Get(layers, walk.next_parent) # None
    /\ walk' = [walk EXCEPT !.parent_ids = Append(@, Get(layers, walk.next_parent)[1].id),
                            !.visited = Append(@, walk.next_parent),
                            !.next_parent = NextParent(layers, walk.next_parent)]
    /\ UNCHANGED <<layers, calls, status, converts, failures, last, hist, closed,
                   everDeclared, build, derived, field, wide>>

\* The end of the loop: the reverse, the push to the store, Ok(id), and
\* end_scope in Xylem::convert.
WalkFinish ==
    /\ walk.at = "walking"
    /\ Get(layers, walk.next_parent) = None
    /\ LET X       == walk.kind
           tracked == TrackWalked(layers, X, walk.parent_ids, walk.name)
           r       == Result(tracked, "ok", walk.index, 0)
           h       == Record(Append(hist, NewHist), layers, X, walk.name, Tracking, r)
           scope   == [type_id |-> IdType(X), index |-> Len(layers) - 1]
       IN  /\ layers' = AfterConvertImpl(tracked, "ok")
           /\ hist' = SubSeq(h, 1, Len(h) - 1)
           /\ status' = EndScopeStatus(tracked, scope, build, status)
           /\ last' = Op("convert", X, walk.name, Tracking, "ok", walk.index, 0, Len(calls))
           /\ everDeclared' = everDeclared \cup {<<X, walk.name>>}
    /\ walk' = [at |-> "idle", kind |-> Unit, name |-> "", index |-> 0,
                next_parent |-> Unit, parent_ids |-> <<>>, visited |-> <<>>]
    /\ UNCHANGED <<calls, converts, failures, closed, build, derived, field, wide>>

WalkNext ==
    \/ \E t \in NestedTypes : WalkBegin(t)
    \/ WalkConvertEnd
    \/ \E X \in Identifiable, from \in Names :
          \/ \E args \in {Declaring, Tracking} : WalkId(X, from, args)
          \/ WalkStart(X, from)
    \/ WalkStep
    \/ WalkFinish

\* The conversion runs in one thread, which goes on while it can: an
\* iteration of the loop that is possible is taken.
WalkSpec == Init /\ [][WalkNext]_vars /\ WF_vars(WalkStep) /\ WF_vars(WalkFinish)

\* ------------------------------------------------------------------ IdString
\* The schema of the repeated conversions with an IdString<S, X> field in its
\* objects, before or after the field that declares:
\*   struct Bar { id: Id<Bar> (new), name: IdString<Bar>, qux: IdString<Qux>,
\*                quxes: Vec<Qux> }
\*   struct Qux { id: Id<Qux> (new, track), name: IdString<Qux>,
\*                bar: IdString<Bar> }
ErrNoCurrent == "No current ID for"

IdStringType(X) == IF X = "Bar" THEN "IdString<Bar>" ELSE "IdString<Qux>"

\* An IdString that reads the newest CurrentId of the kind anywhere on the
\* stack.
IdStringAnySlot(ls, X) ==
    LET id == GetAnySlot(ls, X)
    IN  IF id = None THEN [res |-> ErrNoCurrent, value |-> ""]
        ELSE [res |-> "ok", value |-> id[1].string]

\* IdString::convert_impl
IdStringConvertImpl(ls, X) ==
    LET id == Get(ls, X)
    IN  IF id = None THEN [res |-> ErrNoCurrent, value |-> ""]
        ELSE [res |-> "ok", value |-> id[1].string]

\* Xylem::convert of an IdString<S, X> field: start_scope, convert_impl and,
\* when it returned Ok, end_scope.
IdStringConvert(X) ==
    /\ status = "running"
    /\ calls # <<>>
    /\ Len(layers) < RetryDepth
    /\ LET pushed == StartScope(layers, IdStringType(X))
           r      == IdStringConvertImpl(pushed, X)
       IN  /\ IsErr(r.res) => failures < RetryFailures
           /\ failures' = IF IsErr(r.res) THEN failures + 1 ELSE failures
           /\ last' = Op("id_string", X, r.value, NoArgs, r.res, 0, 0, Len(calls))
           /\ layers' = AfterConvertImpl(pushed, r.res)
           /\ IF r.res = "ok"
              THEN UNCHANGED <<hist, calls>>
              ELSE hist' = Append(hist, NewHist) /\ calls' = <<>>
    /\ UNCHANGED <<status, converts, closed, everDeclared, build, derived, field, walk, wide>>

StringNext ==
    \/ \E t \in Shallow : RetryBegin(t)
    \/ ConvertEnd
    \/ \E X \in Shallow, from \in RetryNames :
          \E args \in {Declaring, Tracking, NoArgs} : RetryId(X, from, args)
    \/ \E X \in Shallow : IdStringConvert(X)

StringSpec == Init /\ [][StringNext]_vars

\* ------------------------------------------------------------------ the width of an index
\* A list of names is given by its length alone, so that lengths around 2^32
\* are states: the names of an IdCounter, or a list of the GlobalIdStore.
UsizeSucc(n) == IF n.lo = U32Base - 1 THEN Usize(n.hi + 1, 0) ELSE Usize(n.hi, n.lo + 1)

UsizeLess(a, b) == a.hi < b.hi \/ (a.hi = b.hi /\ a.lo < b.lo)

\* The value is at most u32::MAX.
FitsU32(n) == n.hi < U32Base

\* `n as u32`: the low 32 bits.
WrapU32(n) == Usize(n.hi % U32Base, n.lo)

\* A conversion that keeps the low 32 bits.
AsU32(n, panic) == [res |-> "ok", index |-> WrapU32(n)]

\* usize::try_into::<u32>().expect(panic)
TryIntoU32(n, panic) ==
    IF FitsU32(n) THEN [res |-> "ok", index |-> n] ELSE [res |-> panic, index |-> Usize(0, 0)]

U32Max == Usize(U32Base - 1, U32Base - 1)

\* Lengths and positions on both sides of u32::MAX.
IndexPositions ==
    {Usize(0, 0), Usize(0, 1), Usize(0, U32Base - 1), Usize(1, 0),
     Usize(U32Base - 1, U32Base - 2), U32Max, Usize(U32Base, 0), Usize(U32Base, 1)}

\* An IdCounter holds at most 2^32 names, for a declaration pushes a name only
\* after its position fitted; a list of the GlobalIdStore has no such limit.
IndexInit ==
    /\ FreshContext /\ build = "debug" /\ NoDerived /\ NoField /\ NoWalk
    /\ \E list \in {"counter", "store"}, len \in IndexPositions :
          /\ list = "counter" => ~UsizeLess(Usize(U32Base, 0), len)
          /\ wide = [list |-> list, len |-> len, op |-> "none", res |-> "ok",
                     at |-> Usize(0, 0), index |-> Usize(0, 0), imported |-> FALSE]

IndexFrame ==
    UNCHANGED <<layers, calls, failures, last, hist, closed, everDeclared, build, derived,
                field, walk>>

IndexStatus(res) == IF res \in Panics THEN res ELSE status

\* Id::convert_impl with args.new on the counter: dup is the outcome of the
\* duplicate check.
IndexDeclare(dup) ==
    /\ status = "running"
    /\ converts < IndexConverts
    /\ wide.list = "counter"
    /\ LET r == IF dup
                THEN [res |-> ErrDuplicate, index |-> Usize(0, 0)]
                ELSE TryIntoU32(wide.len, PanicTooMany)
       IN  /\ wide' = [wide EXCEPT !.op = IF dup THEN "duplicate" ELSE "declare",
                                   !.res = r.res, !.at = wide.len, !.index = r.index,
                                   !.imported = FALSE,
                                   !.len = IF r.res = "ok" THEN UsizeSucc(@) ELSE @]
           /\ status' = IndexStatus(r.res)
    /\ converts' = converts + 1
    /\ IndexFrame

\* Id::convert_impl without args.new when the name is found at position at:
\* the import entries are written before the position is converted.
IndexResolve(at, import) ==
    /\ status = "running"
    /\ converts < IndexConverts
    /\ wide.list # "none"
    /\ UsizeLess(at, wide.len)
    /\ LET r == TryIntoU32(at, PanicTooMany)
       IN  /\ wide' = [wide EXCEPT !.op = "resolve", !.res = r.res, !.at = at,
                                   !.index = r.index, !.imported = import]
           /\ status' = IndexStatus(r.res)
    /\ converts' = converts + 1
    /\ IndexFrame

\* Id::new(index)
IndexNew(at) ==
    /\ status = "running"
    /\ converts < IndexConverts
    /\ wide.list # "none"
    /\ LET r == TryIntoU32(at, PanicTooManyIds)
       IN  /\ wide' = [wide EXCEPT !.op = "new", !.res = r.res, !.at = at,
                                   !.index = r.index, !.imported = FALSE]
           /\ status' = IndexStatus(r.res)
    /\ converts' = converts + 1
    /\ IndexFrame

IndexNext ==
    \/ \E dup \in BOOLEAN : IndexDeclare(dup)
    \/ \E at \in IndexPositions, import \in BOOLEAN : IndexResolve(at, import)
    \/ \E at \in IndexPositions : IndexNew(at)

IndexSpec == IndexInit /\ [][IndexNext]_vars

\* ------------------------------------------------------------------ derived conversions
\* The conversion the Xylem macro derives for a struct Bar whose fields are of
\* type Id<S, Bar> or Vec<Id<S, Bar>>, run as a top-level convert call on a
\* fresh context.

\* The errors of a user's preprocess and postprocess.
ErrPre == "preprocess failed"
ErrPost == "postprocess failed"

\* #[xylem(args(new = true))] and no args.
DeclareArgs == [new |-> TRUE, track |-> FALSE, import |-> {}]

\* The values of a Vec field: up to MaxElems names.
NameLists == UNION {[1..n -> Names] : n \in 0..MaxElems}

\* The args a field attribute passes: a declaration, a reference, or a
\* reference that imports the scope of Qux.
DeriveArgs == {DeclareArgs, NoArgs, ImportingOf("Qux")}

\* A field of the derive input with the raw value it is converted from: an Id
\* (one name) or a Vec of Ids, with the args of its attribute.
DeriveFields ==
    [vec : {FALSE}, args : DeriveArgs, names : [1..1 -> Names]]
        \cup [vec : {TRUE}, args : DeriveArgs, names : NameLists]

\* The derive inputs: #[xylem(process)] or not, what the user's preprocess and
\* postprocess return, and the fields in the order of their declaration.
DeriveInputs ==
    {in \in [process : BOOLEAN, pre : {"ok", ErrPre}, post : {"ok", ErrPost},
             fields : UNION {[1..n -> DeriveFields] : n \in 0..MaxFields}] :
        ~in.process => (in.pre = "ok" /\ in.post = "ok")}

\* Field conversions spliced in the reverse of the declaration order.
FieldConvsReversed(fields) ==
    [i \in 1..Len(fields) |-> [stmt |-> "field", field |-> Len(fields) - i + 1]]

\* field_convs: one conversion expression for each field, pushed in the order
\* of data.fields and spliced in that order into the struct expression.
FieldConvs(fields) == [i \in 1..Len(fields) |-> [stmt |-> "field", field |-> i]]

\* A body that calls preprocess after the fields.
ConvertImplBodyLate(in) ==
    FieldConvs(in.fields)
        \o (IF in.process THEN <<[stmt |-> "preprocess", field |-> 0],
                                  [stmt |-> "postprocess", field |-> 0]>> ELSE <<>>)

\* The statements of the generated convert_impl:
\*   #preprocess  let mut __xylem_ret = #convert_expr;  #postprocess
ConvertImplBody(in) ==
    (IF in.process THEN <<[stmt |-> "preprocess", field |-> 0]>> ELSE <<>>)
        \o FieldConvs(in.fields)
        \o (IF in.process THEN <<[stmt |-> "postprocess", field |-> 0]>> ELSE <<>>)

\* The position after a failure: the error is returned by every call in
\* progress.
Failed(p, res) == [at |-> "failed", stmt |-> p.stmt, elem |-> p.elem, ret |-> res]

\* The `?` after preprocess, postprocess and each field conversion: go on to
\* position next on Ok, return the error otherwise.
Question(p, res, next) == IF res = "ok" THEN next ELSE Failed(p, res)

\* A collect that converts every element whatever the earlier ones returned.
CollectAll(p, res, next) == next

\* from.into_iter().map(|item| T::convert(item, context, args)).collect() into
\* a Result: the iteration stops at the first Err, which is returned.
Collect(p, res, next) == IF res = "ok" THEN next ELSE Failed(p, res)

\* An event of the trace: the step, the field and element it converted with
\* the name and whether it declared, what it returned, and the keys of the
\* stack when it started.
Event(ev, f, e, name, new, res, ls) ==
    [ev |-> ev, field |-> f, elem |-> e, name |-> name, new |-> new, res |-> res,
     keys |-> [i \in 1..Len(ls) |-> ls[i].type_id]]

\* The statement the derived conversion is at.
Stmt == ConvertImplBody(obj)[pc.stmt]

AtStmt(kind) ==
    /\ status = "running"
    /\ pc.at = "body"
    /\ pc.stmt <= Len(ConvertImplBody(obj))
    /\ Stmt.stmt = kind

\* Xylem::convert of the struct: start_scope, before convert_impl runs.
DeriveBegin ==
    /\ status = "running"
    /\ pc.at = "call"
    /\ layers' = StartScope(layers, "Bar")
    /\ calls' = Append(calls, ScopeHandle(layers, "Bar"))
    /\ trace' = Append(trace, Event("start_scope", 0, 0, "", FALSE, "ok", layers))
    /\ pc' = [pc EXCEPT !.at = "body", !.stmt = 1]
    /\ UNCHANGED <<status, converts, failures, last, hist, closed, everDeclared,
                   build, obj, field, walk, wide>>

\* <Self as Processable>::preprocess(..)? and postprocess(..)?
DeriveProcess ==
    /\ \/ AtStmt("preprocess")
       \/ AtStmt("postprocess")
    /\ LET res == IF Stmt.stmt = "preprocess" THEN obj.pre ELSE obj.post
       IN  /\ trace' = Append(trace, Event(Stmt.stmt, 0, 0, "", FALSE, res, layers))
           /\ pc' = Question(pc, res, [pc EXCEPT !.stmt = @ + 1])
           /\ calls' = IF res = "ok" THEN calls ELSE <<>>
    /\ UNCHANGED <<layers, status, converts, failures, last, hist, closed, everDeclared,
                   build, obj, field, walk, wide>>

\* Xylem::convert of one Id<S, Bar> from name `from`: what it leaves of the
\* stack, and what it returns.
DeriveId(ls, from, args) ==
    LET r == IdConvertImpl(StartScope(ls, IdType("Bar")), "Bar", from, args)
    IN  [layers |-> AfterConvertImpl(r.layers, r.res),
         res    |-> r.res,
         status |-> IF r.res \in Panics THEN r.res
                    ELSE IF r.res = "ok"
                    THEN EndScopeStatus(r.layers, ScopeHandle(ls, IdType("Bar")), build, status)
                    ELSE status]

\* The conversion expression of a field of type Id<S, Bar>, with its `?`.
DeriveField ==
    /\ AtStmt("field")
    /\ ~obj.fields[Stmt.field].vec
    /\ LET f == obj.fields[Stmt.field]
       IN  \E r \in {DeriveId(layers, f.names[1], f.args)} :
              /\ layers' = r.layers
              /\ status' = r.status
              /\ trace' = Append(trace,
                     Event("field", Stmt.field, 1, f.names[1], f.args.new, r.res, layers))
              /\ pc' = Question(pc, r.res, [pc EXCEPT !.stmt = @ + 1])
              /\ calls' = IF r.res = "ok" THEN calls ELSE <<>>
    /\ UNCHANGED <<converts, failures, last, hist, closed, everDeclared, build, obj, field, walk, wide>>

\* Xylem::convert of a field of type Vec<Id<S, Bar>>: start_scope.
DeriveVecBegin ==
    /\ AtStmt("field")
    /\ obj.fields[Stmt.field].vec
    /\ layers' = StartScope(layers, VecType)
    /\ calls' = Append(calls, ScopeHandle(layers, VecType))
    /\ pc' = [pc EXCEPT !.at = "vec", !.elem = 1]
    /\ UNCHANGED <<status, converts, failures, last, hist, closed, everDeclared,
                   build, obj, trace, field, walk, wide>>

\* One item of the iteration of <Vec<T> as Xylem>::convert_impl.
DeriveVecElem ==
    /\ status = "running"
    /\ pc.at = "vec"
    /\ pc.elem <= Len(obj.fields[Stmt.field].names)
    /\ LET f == obj.fields[Stmt.field]
       IN  \E r \in {DeriveId(layers, f.names[pc.elem], f.args)} :
              /\ layers' = r.layers
              /\ status' = r.status
              /\ trace' = Append(trace,
                     Event("field", Stmt.field, pc.elem, f.names[pc.elem], f.args.new,
                           r.res, layers))
              /\ pc' = Collect(pc, r.res, [pc EXCEPT !.elem = @ + 1])
              /\ calls' = IF r.res = "ok" THEN calls ELSE <<>>
    /\ UNCHANGED <<converts, failures, last, hist, closed, everDeclared, build, obj, field, walk, wide>>

\* Xylem::convert of the Vec field after its convert_impl returned Ok:
\* end_scope, and the `?` of the field's conversion expression.
DeriveVecEnd ==
    /\ status = "running"
    /\ pc.at = "vec"
    /\ pc.elem > Len(obj.fields[Stmt.field].names)
    /\ layers' = EndScope(layers)
    /\ calls' = SubSeq(calls, 1, Len(calls) - 1)
    /\ status' = EndScopeStatus(layers, calls[Len(calls)], build, status)
    /\ pc' = [pc EXCEPT !.at = "body", !.stmt = @ + 1, !.elem = 0]
    /\ UNCHANGED <<converts, failures, last, hist, closed, everDeclared, build, obj,
                   trace, field, walk, wide>>

\* Ok(__xylem_ret) of convert_impl, then end_scope in Xylem::convert.
DeriveEnd ==
    /\ status = "running"
    /\ pc.at = "body"
    /\ pc.stmt > Len(ConvertImplBody(obj))
    /\ layers' = EndScope(layers)
    /\ calls' = SubSeq(calls, 1, Len(calls) - 1)
    /\ status' = EndScopeStatus(layers, calls[Len(calls)], build, status)
    /\ trace' = Append(trace, Event("end_scope", 0, 0, "", FALSE, "ok", layers))
    /\ pc' = [pc EXCEPT !.at = "done", !.ret = "ok"]
    /\ UNCHANGED <<converts, failures, last, hist, closed, everDeclared, build, obj, field, walk, wide>>

DeriveInit ==
    /\ FreshContext
    /\ build \in {"debug", "release"}
    /\ obj \in DeriveInputs
    /\ pc = [at |-> "call", stmt |-> 0, elem |-> 0, ret |-> ""]
    /\ trace = <<>>
    /\ NoField
    /\ NoWalk
    /\ NoWide

DeriveNext ==
    \/ DeriveBegin
    \/ DeriveProcess
    \/ DeriveField
    \/ DeriveVecBegin
    \/ DeriveVecElem
    \/ DeriveVecEnd
    \/ DeriveEnd

DeriveSpec == DeriveInit /\ [][DeriveNext]_vars

\* ------------------------------------------------------------------ claims
\* The last operation was the conversion of an Id field.
IsConvert == last.op = "convert"
IsDeclare == IsConvert /\ last.args.new
IsResolve == IsConvert /\ ~last.args.new

\* The number of layers that were below the Id's layer when the last Id
\* conversion ran (a failed conversion leaves the Id's layer on the stack).
OpDepth == IF last.res = "ok" THEN Len(layers) ELSE Len(layers) - 1

\* Layer i belonged to a convert call in progress (or is the root layer) when
\* the last Id conversion ran.
LiveAtOp(i) == i = 1 \/ (OpDepth - last.live < i /\ i <= OpDepth)

\* The scope instance the last Id conversion belonged to: the newest layer
\* keyed by the scope kind of its kind, 0 when there is none.
OpScope == NewestKeyed(layers, KindScope(last.kind))

\* C1 (as amended): within one scope instance, the k-th declaration made with
\* pairwise-distinct names returns index k-1, and a reference to any of those
\* names made while that instance is the newest layer keyed by the scope kind
\* returns the index assigned at the declaration.
C1_DeclarationOrder ==
    (IsConvert /\ OpScope # 0) =>
        LET log == hist[OpScope].log[last.kind]
        IN  /\ (last.args.new /\ last.res = "ok") =>
                  /\ Len(log) > 0
                  /\ log[Len(log)].name = last.name
                  /\ last.index = Len(log) - 1
            /\ (~last.args.new /\ last.name \in LogNames(log)) =>
                  /\ last.res = "ok"
                  /\ last.index = LogIndex(log, last.name)

\* C1 as stated: a reference to a name declared in a live scope instance that
\* is still on the stack returns the index assigned at the declaration.
C1_Original ==
    IsConvert =>
        /\ (last.args.new /\ last.res = "ok" /\ OpScope # 0) =>
              LET log == hist[OpScope].log[last.kind]
              IN  Len(log) > 0 /\ log[Len(log)].name = last.name
                    /\ last.index = Len(log) - 1
        /\ ~last.args.new =>
              \A i \in 1..OpDepth :
                  (/\ layers[i].type_id = KindScope(last.kind)
                   /\ LiveAtOp(i)
                   /\ last.name \in LogNames(hist[i].log[last.kind])) =>
                      /\ last.res = "ok"
                      /\ last.index = LogIndex(hist[i].log[last.kind], last.name)

\* The second Bar of a context was declared with index 1 by a later
\* top-level conversion and a reference to it resolved to index 1.
C1_Witness ==
    /\ IsResolve /\ last.kind = "Bar" /\ last.res = "ok" /\ last.index = 1
    /\ converts >= 2
    /\ Len(hist[1].log["Bar"]) = 2
    /\ hist[1].log["Bar"][2].ret = 1

\* C2: declaring a name that is already in the Counter of the targeted scope
\* instance fails with "Duplicate ID" wherever the earlier occurrence is, and
\* leaves every layer that was on the stack (its Counter, CurrentId record and
\* GlobalIdStore included) as it was; only the Id's own empty layer is added.
C2_DuplicateRejected ==
    [][(last'.op = "convert" /\ last'.args.new) =>
          LET X == last'.kind
              s == NewestKeyed(layers, KindScope(X))
          IN  (s # 0 /\ last'.name \in Range(CounterNames(layers[s], X))) =>
                  /\ last'.res = ErrDuplicate
                  /\ Len(layers') = Len(layers) + 1
                  /\ SubSeq(layers', 1, Len(layers)) = layers
                  /\ layers'[Len(layers')] = NewLayer(IdType(X))]_vars

\* A declaration failed as a duplicate of a name that is not the last one of
\* a Counter of two names, CurrentId records and a GlobalIdStore being present.
C2_Witness ==
    /\ IsDeclare /\ last.res = ErrDuplicate /\ OpScope # 0
    /\ Len(CounterNames(layers[OpScope], last.kind)) = 2
    /\ CounterNames(layers[OpScope], last.kind)[1] = last.name
    /\ \E i \in 1..Len(layers) : layers[i].current # None
    /\ layers[1].store[last.kind] # None

\* C3: resolution is online: a reference to a name for which no declaration
\* of its kind has been processed yet fails, and a reference that returns a
\* handle names a declaration that was processed before it.
C3_NoForwardReference ==
    IsResolve =>
        /\ <<last.kind, last.name>> \notin everDeclared =>
              last.res \in {ErrUnknown, ErrUseBefore, ErrNotTracked, ErrIdNotTracked}
        /\ last.res = "ok" => <<last.kind, last.name>> \in everDeclared

\* A reference failed inside a scope instance that had declared another name
\* of the kind, its own name not having been declared anywhere yet.
C3_Witness ==
    /\ IsResolve /\ last.res = ErrUnknown
    /\ <<last.kind, last.name>> \notin everDeclared
    /\ OpScope # 0
    /\ CounterNames(layers[OpScope], last.kind) # <<>>

\* The names of a log, in the order of their declaration.
LogSeq(log) == [k \in 1..Len(log) |-> log[k].name]

\* A layer that was on the stack when the last Id conversion ran holds an
\* ImportScope entry for kind X.
ImportOnStack(X) == \E i \in 1..OpDepth : X \in DOMAIN layers[i].import

\* The name of the last Id conversion was declared for its kind, but in no
\* scope instance that was on the stack when the conversion ran.
DeclaredOnlyInClosed ==
    /\ <<last.kind, last.name>> \in everDeclared
    /\ \A i \in 1..OpDepth : last.name \notin LogNames(hist[i].log[last.kind])

\* C4 (as amended): the Counter of a scope instance holds exactly the names
\* declared in that instance, so it starts empty and indices restart at 0; a
\* reference in a later instance to a name declared only in closed instances
\* fails with "Unknown ID" when the later instance already has a Counter of
\* the kind, and with "Use of ID before registering the first one" when it
\* has none and no layer on the stack holds an import entry for the kind.
C4_FreshInstance ==
    /\ \A i \in 1..Len(layers) : \A X \in Identifiable :
          CounterNames(layers[i], X) = LogSeq(hist[i].log[X])
    /\ (IsResolve /\ OpScope > 1 /\ DeclaredOnlyInClosed) =>
          /\ layers[OpScope].counter[last.kind] # None => last.res = ErrUnknown
          /\ (layers[OpScope].counter[last.kind] = None /\ ~ImportOnStack(last.kind))
                => last.res = ErrUseBefore

\* C4 as stated: such a reference always fails with "Unknown ID".
C4_Original ==
    /\ \A i \in 1..Len(layers) : \A X \in Identifiable :
          CounterNames(layers[i], X) = LogSeq(hist[i].log[X])
    /\ (IsResolve /\ OpScope > 1 /\ DeclaredOnlyInClosed) => last.res = ErrUnknown

\* In a second Bar instance a Qux was declared with index 0, and a reference
\* to the Qux name of the first, closed Bar instance failed as unknown.
C4_Witness ==
    /\ IsResolve /\ last.kind = "Qux" /\ last.res = ErrUnknown
    /\ OpScope > 1 /\ DeclaredOnlyInClosed
    /\ Len(hist[OpScope].log["Qux"]) = 1
    /\ hist[OpScope].log["Qux"][1].ret = 0

\* The last Id conversion was a reference to a Qux converted directly in an
\* object in which an earlier reference had imported Qux from the Bar
\* instance with index p, that instance having closed.
ImportedFrom(p) ==
    /\ IsResolve /\ last.kind = "Qux"
    /\ "Qux" \in DOMAIN hist[OpDepth].imp
    /\ hist[OpDepth].imp["Qux"] = p
    /\ p \in DOMAIN closed

\* No Counter of the kind of the last Id conversion was active when it ran.
NoActiveCounter ==
    OpScope = 0 \/ layers[OpScope].counter[last.kind] = None

\* Every Qux of a log was declared with track = true, after the Bar instance
\* had declared its own id.
AllTracked(log) == \A k \in 1..Len(log) : log[k].track /\ ~log[k].early

\* C5 (as amended): after a Bar instance that declared its own id before its
\* Qux children were converted, and whose Qux were all declared with
\* track = true, has closed, a reference to its name carrying import = [Qux]
\* lets later sibling fields resolve, while no Counter for Qux is active, each
\* of its Qux names to its position among the Qux declared under it.
C5_ImportResolves ==
    \A p \in DOMAIN closed :
        (/\ ImportedFrom(p) /\ NoActiveCounter
         /\ AllTracked(closed[p])
         /\ last.name \in LogNames(closed[p])) =>
            /\ last.res = "ok"
            /\ last.index = LogIndex(closed[p], last.name)

\* C5 as stated: every Qux name declared with track = true under the closed
\* Bar instance resolves to its position among the Qux declared under it.
C5_Original ==
    \A p \in DOMAIN closed :
        (/\ ImportedFrom(p)
         /\ last.name \in LogNames(closed[p])
         /\ closed[p][LogIndex(closed[p], last.name) + 1].track) =>
            /\ last.res = "ok"
            /\ last.index = LogIndex(closed[p], last.name)

\* The second Qux of a closed Bar instance was resolved through an import.
C5_Witness ==
    \E p \in DOMAIN closed :
        /\ ImportedFrom(p) /\ NoActiveCounter /\ AllTracked(closed[p])
        /\ Len(closed[p]) = 2
        /\ last.name = closed[p][2].name
        /\ last.res = "ok" /\ last.index = 1

\* C6 (as amended): a second declaration of a kind within the same object
\* instance fails: with "Multiple new IDs defined", carrying the new index and
\* the index of the existing record, when its name is not yet in the targeted
\* Counter, and with "Duplicate ID" when it is; in both cases the CurrentId
\* record of the object is kept as it was.
C6_SecondDeclaration ==
    [][(last'.op = "convert" /\ last'.args.new) =>
          LET X == last'.kind
              c == NewestKeyed(layers, X)
              s == NewestKeyed(layers, KindScope(X))
          IN  (c # 0 /\ s # 0 /\ hist[c].own # -1) =>
                  /\ IF last'.name \in Range(CounterNames(layers[s], X))
                     THEN last'.res = ErrDuplicate
                     ELSE /\ last'.res = ErrMultiple
                          /\ last'.index = Len(CounterNames(layers[s], X))
                          /\ last'.existing = hist[c].own
                  /\ layers'[c].current = layers[c].current
                  /\ layers[c].current = Some([id     |-> hist[c].own,
                                               parent |-> KindScope(X),
                                               string |-> layers[c].current[1].string])
      ]_vars

\* C6 as stated: every second declaration of a kind within the same object
\* instance fails with "Multiple new IDs defined".
C6_Original ==
    [][(last'.op = "convert" /\ last'.args.new) =>
          LET X == last'.kind
              c == NewestKeyed(layers, X)
              s == NewestKeyed(layers, KindScope(X))
          IN  (c # 0 /\ s # 0 /\ hist[c].own # -1) =>
                  /\ last'.res = ErrMultiple
                  /\ last'.index = Len(CounterNames(layers[s], X))
                  /\ last'.existing = hist[c].own
                  /\ layers'[c].current = layers[c].current
      ]_vars

\* A second declaration with another name failed in an object that had
\* declared index 0: the error carries the new index 1 and the existing 0.
C6_Witness ==
    /\ IsDeclare /\ last.res = ErrMultiple
    /\ last.index = 1 /\ last.existing = 0
    /\ NewestKeyed(layers, last.kind) # 0
    /\ layers[NewestKeyed(layers, last.kind)].current # None
    /\ layers[NewestKeyed(layers, last.kind)].current[1].id = 0
    /\ layers[NewestKeyed(layers, last.kind)].current[1].string # last.name

\* The newest layer of stack ls keyed by the scope of kind X has a Counter.
ActiveCounter(ls, X) ==
    /\ NewestKeyed(ls, KindScope(X)) # 0
    /\ ls[NewestKeyed(ls, KindScope(X))].counter[X] # None

\* The layers of stack ls that hold an ImportScope entry for kind X.
Importing(ls, X) == {i \in 1..Len(ls) : X \in DOMAIN ls[i].import}

\* The GlobalIdStore of kind X has an entry at the path of the innermost
\* ImportScope entry for X.
ImportedEntry(ls, X) ==
    /\ Importing(ls, X) # {}
    /\ ls[1].store[X] # None
    /\ ls[Max(Importing(ls, X))].import[X] \in DOMAIN ls[1].store[X][1]

\* The names of that entry.
ImportedNames(ls, X) == ls[1].store[X][1][ls[Max(Importing(ls, X))].import[X]]

\* C7: a reference to a name that is in no reachable scope fails with
\* "Unknown ID": the name is not in the active Counter of the kind, or, no
\* Counter being active, not in the registry entry an import makes visible.
C7_UnknownName ==
    [][(last'.op = "convert" /\ ~last'.args.new) =>
          LET X == last'.kind
          IN  /\ (/\ ActiveCounter(layers, X)
                  /\ last'.name \notin
                        Range(CounterNames(layers[NewestKeyed(layers, KindScope(X))], X)))
                    => last'.res = ErrUnknown
              /\ (/\ ~ActiveCounter(layers, X)
                  /\ ImportedEntry(layers, X)
                  /\ last'.name \notin Range(ImportedNames(layers, X)))
                    => last'.res = ErrUnknown
      ]_vars

\* A reference resolved through an import failed as unknown, the imported
\* registry entry holding another name.
C7_Witness ==
    /\ IsResolve /\ last.res = ErrUnknown
    /\ NoActiveCounter
    /\ ImportedEntry(SubSeq(layers, 1, OpDepth), last.kind)
    /\ ImportedNames(SubSeq(layers, 1, OpDepth), last.kind) # <<>>

\* C8: a reference processed when the newest layer keyed by the scope of its
\* kind has no Counter of the kind (or there is no such layer) and no layer
\* holds an import entry for the kind fails with "Use of ID before
\* registering the first one".
C8_NoScope ==
    [][(last'.op = "convert" /\ ~last'.args.new) =>
          ((~ActiveCounter(layers, last'.kind) /\ Importing(layers, last'.kind) = {})
              => last'.res = ErrUseBefore)
      ]_vars

\* A reference to a declared name failed outside the scope of its kind,
\* nothing having been imported.
C8_Witness ==
    /\ IsResolve /\ last.res = ErrUseBefore
    /\ <<last.kind, last.name>> \in everDeclared
    /\ OpScope = 0
    /\ ~ImportOnStack(last.kind)

\* "UntrackedScope": the two errors of a resolution through an import whose
\* registry entry is missing.
UntrackedScope == {ErrNotTracked, ErrIdNotTracked}

\* C9: a reference resolved through an import, no Counter of the kind being
\* active, fails with an "UntrackedScope" error when the registry has no entry
\* for the kind at the imported path.
C9_Untracked ==
    [][(last'.op = "convert" /\ ~last'.args.new) =>
          ((/\ ~ActiveCounter(layers, last'.kind)
            /\ Importing(layers, last'.kind) # {}
            /\ ~ImportedEntry(layers, last'.kind))
              => last'.res \in UntrackedScope)
      ]_vars

\* A reference to a Qux of a closed Bar instance failed as untracked, the
\* Qux of that instance having been declared with track = false.
C9_Witness ==
    \E p \in DOMAIN closed :
        /\ ImportedFrom(p) /\ NoActiveCounter
        /\ closed[p] # <<>>
        /\ \A k \in 1..Len(closed[p]) : ~closed[p][k].track
        /\ last.name \in LogNames(closed[p])
        /\ last.res \in UntrackedScope

\* C10 (as amended): while a scope instance is the newest layer keyed by its
\* scope kind, every reference to a name declared in it returns the handle
\* that was returned at the declaration, whatever was declared or resolved in
\* between.
C10_StableHandle ==
    (IsResolve /\ OpScope # 0) =>
        LET log == hist[OpScope].log[last.kind]
        IN  (last.name \in LogNames(log) /\ LogRet(log, last.name) # -1) =>
                /\ last.res = "ok"
                /\ last.index = LogRet(log, last.name)

\* C10 as stated: the same holds for every scope instance on the stack.
C10_Original ==
    IsResolve =>
        \A i \in 1..OpDepth :
            LET log == hist[i].log[last.kind]
            IN  (/\ layers[i].type_id = KindScope(last.kind)
                 /\ last.name \in LogNames(log)
                 /\ LogRet(log, last.name) # -1) =>
                    /\ last.res = "ok"
                    /\ last.index = LogRet(log, last.name)

\* The first of two declared Bar names was resolved a second time in an
\* object, to the handle 0 of its declaration and of the first resolution.
C10_Witness ==
    /\ IsResolve /\ last.kind = "Bar" /\ last.res = "ok" /\ last.index = 0
    /\ Len(hist[1].log["Bar"]) = 2
    /\ hist[1].log["Bar"][1].name = last.name
    /\ hist[1].log["Bar"][1].ret = 0
    /\ last.args.import = {}
    /\ "Qux" \in DOMAIN hist[OpDepth].imp
    /\ hist[OpDepth].imp["Qux"] = 0

C12_RegistryFrame ==
    [][IF last'.op = "convert" /\ last'.args.new /\ last'.args.track
             /\ last'.res = "ok"
       THEN /\ \E path \in DOMAIN StoreIds(layers', last'.kind) :
                  LET old == IF path \in DOMAIN StoreIds(layers, last'.kind)
                             THEN StoreIds(layers, last'.kind)[path] ELSE <<>>
                  IN  StoreIds(layers', last'.kind) =
                         (path :> Append(old, last'.name)) @@ StoreIds(layers, last'.kind)
            /\ \A X \in Identifiable \ {last'.kind} :
                  layers'[1].store[X] = layers[1].store[X]
       ELSE \A X \in Identifiable : layers'[1].store[X] = layers[1].store[X]
      ]_vars

\* The Bar instance under which two Qux were tracked has ended: only the root
\* layer is left and the store still holds the two names under one path.
C12_Witness ==
    /\ last.op = "end_scope" /\ last.kind = "Bar"
    /\ Len(layers) = 1
    /\ \E path \in DOMAIN StoreIds(layers, "Qux") : Len(StoreIds(layers, "Qux")[path]) = 2

\* The keys of the layers of a stack, bottom first.
Keys(ls) == [i \in 1..Len(ls) |-> ls[i].type_id]

\* C14: a convert call pushes one layer keyed by the kind of the converted
\* value and, when its body succeeds, pops that layer, leaving the depth and
\* the keys of the stack as they were before the call; the body of an Id's
\* conversion (declare, resolve) neither pushes nor pops, so a successful Id
\* conversion leaves the keys as they were and a failed one leaves the Id's
\* own layer on top.
C14_PushPop ==
    [][/\ last'.op = "start_scope" => Keys(layers') = Append(Keys(layers), last'.kind)
       /\ last'.op = "end_scope" =>
             /\ Keys(layers) = Append(Keys(layers'), last'.kind)
             /\ Len(layers') = calls[Len(calls)].index
             /\ calls[Len(calls)].type_id = last'.kind
       /\ (last'.op = "convert" /\ last'.res = "ok") => Keys(layers') = Keys(layers)
       /\ (last'.op = "convert" /\ last'.res # "ok") =>
             Keys(layers') = Append(Keys(layers), IdType(last'.kind))
      ]_vars

\* The conversion of a Bar that declared its id and converted a Qux child
\* has ended, and the stack is the root layer alone again.
C14_Witness ==
    /\ last.op = "end_scope" /\ last.kind = "Bar"
    /\ Keys(layers) = <<Unit>>
    /\ hist[1].log["Bar"] # <<>>
    /\ closed # <<>>
    /\ \E p \in DOMAIN closed : closed[p] # <<>>

\* C16: the stack is never empty and its bottom layer is the root layer,
\* which is never popped: its Counter holds every name declared for the
\* root-scoped kind so far, and its store every tracked name of the closed
\* Bar instances.
C16_RootLayer ==
    /\ Len(layers) >= 1
    /\ layers[1].type_id = Unit
    /\ CounterNames(layers[1], "Bar") = LogSeq(hist[1].log["Bar"])
    /\ \A p \in DOMAIN closed : \A k \in 1..Len(closed[p]) :
          (closed[p][k].track /\ ~closed[p][k].early) =>
              /\ <<p>> \in DOMAIN StoreIds(layers, "Qux")
              /\ closed[p][k].name \in Range(StoreIds(layers, "Qux")[<<p>>])

\* Two top-level conversions have ended; the root layer is alone on the
\* stack and holds the two Bar names and a tracked Qux name.
C16_Witness ==
    /\ last.op = "end_scope" /\ Len(layers) = 1
    /\ Len(CounterNames(layers[1], "Bar")) = 2
    /\ \E p \in DOMAIN closed : \E k \in 1..Len(closed[p]) :
          closed[p][k].track /\ ~closed[p][k].early

\* C20: no IdCounter of any layer holds the same name twice.
C20_UniqueNames ==
    \A i \in 1..Len(layers) : \A X \in Identifiable :
        \A j, k \in 1..Len(CounterNames(layers[i], X)) :
            CounterNames(layers[i], X)[j] = CounterNames(layers[i], X)[k] => j = k

\* A declaration failed with "Multiple new IDs defined" after its name was
\* pushed to a Counter that now holds two names.
C20_Witness ==
    /\ IsDeclare /\ last.res = ErrMultiple /\ OpScope # 0
    /\ Len(CounterNames(layers[OpScope], last.kind)) = 2
    /\ CounterNames(layers[OpScope], last.kind)[2] = last.name

\* Nested convert calls: the handles of the calls in progress name, in order,
\* layers of the stack with their keys, and no assertion of end_scope failed.
C15_NestedCallsMatch ==
    /\ status # PanicMismatch
    /\ \A k \in 1..Len(calls) :
          /\ calls[k].index + 1 <= Len(layers)
          /\ layers[calls[k].index + 1].type_id = calls[k].type_id
          /\ k < Len(calls) => calls[k].index < calls[k + 1].index

\* C15 (its last part, for calls of the Context API in any order): a pop
\* whose handle matches the top layer (its key, and the depth left after the
\* pop) does not fail, and a pop whose handle does not match it fails the
\* assertion "Scope mismatch".
C15_PopChecked ==
    [][last'.op = "end_scope" =>
          IF /\ last'.kind = layers[Len(layers)].type_id
             /\ last'.index = Len(layers) - 1
          THEN status' = "running" /\ last'.res = "ok"
          ELSE status' = PanicMismatch /\ last'.res = PanicMismatch
      ]_vars

\* ------------------------------------------------------------------ field attributes
\* process_field of the derive macro: the attributes of one field, read in the
\* order they are written, decide how the field is converted.

\* The messages of the two errors, without the quotation marks around the
\* attribute names.
ErrOnlyOne == "Only one of preserve, transform or default can be used."
ErrCannotArgs == "Cannot use args if preserve, transform or default is used."

\* The attributes FieldAttr::parse accepts.
FieldAttrs == {"serde", "preserve", "transform", "transform_with_context", "default", "args"}

\* The attributes the documentation of args names as incompatible with it.
Exclusive == {"preserve", "transform", "transform_with_context", "default"}

\* The attributes that make a field Mode::Transform.
Transforms == {"preserve", "transform", "transform_with_context"}

\* The head of the attributes still to read.
AtAttr(a) ==
    /\ field.mode # "idle"
    /\ field.err = ""
    /\ field.conv = ""
    /\ field.rest # <<>>
    /\ Head(field.rest) = a

\* return Err(..) out of the loop over the attributes.
Reject(msg) == field' = [field EXCEPT !.err = msg]

FieldFrame ==
    UNCHANGED <<layers, calls, status, converts, failures, last, hist, closed,
                everDeclared, build, derived, walk, wide>>

\* FieldAttr::Serde(ts): from_attrs.extend(..)
FieldSerde ==
    /\ AtAttr("serde")
    /\ field' = [field EXCEPT !.rest = Tail(@)]
    /\ FieldFrame

\* FieldAttr::Preserve, FieldAttr::Transform, FieldAttr::TransformWithContext:
\* an error unless matches!(mode, Mode::Standard(_)), else Mode::Transform.
FieldTransform(a) ==
    /\ AtAttr(a)
    /\ IF field.mode # "Standard"
       THEN Reject(ErrOnlyOne)
       ELSE field' = [field EXCEPT !.rest = Tail(@), !.mode = "Transform", !.arg_defs = 0,
                                   !.context = (a = "transform_with_context")]
    /\ FieldFrame

\* FieldAttr::Default(expr): an error unless matches!(mode, Mode::Standard(_)),
\* else Mode::Default.
FieldDefault ==
    /\ AtAttr("default")
    /\ IF field.mode # "Standard"
       THEN Reject(ErrOnlyOne)
       ELSE field' = [field EXCEPT !.rest = Tail(@), !.mode = "Default", !.arg_defs = 0]
    /\ FieldFrame

\* FieldAttr::Args(span, args): Mode::Standard(arg_defs) is extended, any
\* other mode is an error.
FieldArgs ==
    /\ AtAttr("args")
    /\ IF field.mode = "Standard"
       THEN field' = [field EXCEPT !.rest = Tail(@), !.arg_defs = @ + 1]
       ELSE Reject(ErrCannotArgs)
    /\ FieldFrame

\* Ok(match mode { .. }) after the loop: Mode::Standard passes its arg_defs to
\* Xylem::convert, Mode::Default and Mode::Transform have none to pass.
FieldFinish ==
    /\ field.mode # "idle"
    /\ field.err = ""
    /\ field.conv = ""
    /\ field.rest = <<>>
    /\ field' = [field EXCEPT !.conv = field.mode,
                              !.passed = IF field.mode = "Standard" THEN field.arg_defs ELSE 0]
    /\ FieldFrame

FieldInit ==
    /\ FreshContext
    /\ build = "debug"
    /\ NoDerived
    /\ NoWalk
    /\ NoWide
    /\ \E n \in 0..MaxAttrs : \E attrs \in [1..n -> FieldAttrs] :
          field = [attrs |-> attrs, rest |-> attrs, mode |-> "Standard", context |-> FALSE,
                   arg_defs |-> 0, err |-> "", conv |-> "", passed |-> 0]

FieldNext ==
    \/ FieldSerde
    \/ \E a \in Transforms : FieldTransform(a)
    \/ FieldDefault
    \/ FieldArgs
    \/ FieldFinish

FieldSpec == FieldInit /\ [][FieldNext]_vars

\* ------------------------------------------------------------------ derived conversions: claims

\* The positions of the field and element conversions in the trace.
FieldEvents == {i \in 1..Len(trace) : trace[i].ev = "field"}

\* The positions of the trace whose step returned an error.
ErrorEvents == {i \in 1..Len(trace) : trace[i].res # "ok"}

\* The elements of field i of the value in the order a Vec iterates them.
FlatField(fields, i) ==
    [e \in 1..Len(fields[i].names) |->
        [field |-> i, elem |-> e, name |-> fields[i].names[e], new |-> fields[i].args.new]]

RECURSIVE Flat(_, _)
\* The leaves of the value from field i on, in the order of declaration.
Flat(fields, i) ==
    IF i > Len(fields) THEN <<>> ELSE FlatField(fields, i) \o Flat(fields, i + 1)

\* The field and element conversions of the trace, in the order they ran.
Converted ==
    LET evs == SelectSeq(trace, LAMBDA e : e.ev = "field")
    IN  [k \in 1..Len(evs) |->
            [field |-> evs[k].field, elem |-> evs[k].elem,
             name |-> evs[k].name, new |-> evs[k].new]]

\* The names the declarations of the trace pushed, in the order they ran: a
\* declaration pushes unless it is rejected as a duplicate.
Pushed ==
    LET evs == SelectSeq(trace, LAMBDA e : e.ev = "field" /\ e.new /\ e.res # ErrDuplicate)
    IN  [k \in 1..Len(evs) |-> evs[k].name]

\* C13: the first error of a declaration or reference aborts the call chain.
\* An error is the last step of the trace: no field, element or sibling is
\* converted after it, the context holds exactly the declarations made up to
\* it, and the top-level convert has returned that error and no other.
C13_FirstErrorAborts ==
    /\ ErrorEvents \subseteq {Len(trace)}
    /\ ErrorEvents # {} => (pc.at = "failed" /\ pc.ret = trace[Len(trace)].res)
    /\ pc.at = "failed" => ErrorEvents = {Len(trace)}
    /\ pc.at = "done" => (ErrorEvents = {} /\ pc.ret = "ok")
    /\ CounterNames(layers[1], "Bar") = Pushed

\* A Vec field failed at its first element: its second element and the field
\* after it were never converted.
C13_Witness ==
    /\ pc.at = "failed"
    /\ Len(obj.fields) = 2
    /\ obj.fields[1].vec
    /\ Len(obj.fields[1].names) = 2
    /\ trace[Len(trace)].ev = "field"
    /\ trace[Len(trace)].field = 1
    /\ trace[Len(trace)].elem = 1
    /\ pc.ret = trace[Len(trace)].res
    /\ Cardinality(FieldEvents) = 1

\* C17: with #[xylem(process)], preprocess is the first step after the push of
\* the value's own layer and runs before every field; postprocess runs after
\* every field and element was converted, with the own layer still on the
\* stack; a failed preprocess leaves every field unconverted and a failed
\* preprocess or postprocess makes the conversion fail with its error.
C17_Processable ==
    obj.process =>
        /\ Len(trace) >= 2 =>
              (trace[1].ev = "start_scope" /\ trace[2].ev = "preprocess")
        /\ \A i \in 1..Len(trace) :
              /\ trace[i].ev \in {"preprocess", "postprocess"} =>
                    trace[i].keys = <<Unit, "Bar">>
              /\ trace[i].ev = "field" =>
                    \E j \in 1..(i - 1) : trace[j].ev = "preprocess" /\ trace[j].res = "ok"
              /\ trace[i].ev = "postprocess" =>
                    /\ {j \in FieldEvents : j < i} = FieldEvents
                    /\ Converted = Flat(obj.fields, 1)
              /\ trace[i].ev = "end_scope" =>
                    \E j \in 1..(i - 1) : trace[j].ev = "postprocess" /\ trace[j].res = "ok"
        /\ (obj.pre # "ok" /\ Len(trace) >= 2) =>
              (FieldEvents = {} /\ pc.at = "failed" /\ pc.ret = ErrPre /\ Len(trace) = 2)
        /\ pc.at = "done" => (obj.pre = "ok" /\ obj.post = "ok")
        /\ (\E i \in 1..Len(trace) : trace[i].ev = "postprocess" /\ trace[i].res # "ok") =>
              (pc.at = "failed" /\ pc.ret = ErrPost)

\* A processed value with two converted fields whose postprocess failed.
C17_Witness ==
    /\ obj.process
    /\ Len(obj.fields) = 2
    /\ Cardinality(FieldEvents) >= 2
    /\ trace[Len(trace)].ev = "postprocess"
    /\ pc.at = "failed"
    /\ pc.ret = ErrPost
    /\ Len(layers) = 2

\* C18: the fields are converted in the order of their declaration against one
\* context: the conversions that ran are a prefix of the leaves of the value in
\* declaration order, and a reference resolves exactly when an earlier leaf in
\* that order declared its name, never when only a later one does.
C18_FieldOrder ==
    /\ Len(Converted) <= Len(Flat(obj.fields, 1))
    /\ Converted = SubSeq(Flat(obj.fields, 1), 1, Len(Converted))
    /\ \A i \in FieldEvents :
          ~trace[i].new =>
              (trace[i].res = "ok" <=>
                  \E j \in FieldEvents :
                      j < i /\ trace[j].new /\ trace[j].name = trace[i].name)
    /\ \A i \in FieldEvents :
          (~trace[i].new /\ trace[i].res = "ok") =>
              \E k \in 1..Len(Flat(obj.fields, 1)) :
                  /\ Flat(obj.fields, 1)[k].new
                  /\ Flat(obj.fields, 1)[k].name = trace[i].name
                  /\ \/ Flat(obj.fields, 1)[k].field < trace[i].field
                     \/ /\ Flat(obj.fields, 1)[k].field = trace[i].field
                        /\ Flat(obj.fields, 1)[k].elem < trace[i].elem

\* A value whose first field declares a name and whose second field refers to
\* it twice was converted.
C18_Witness ==
    /\ pc.at = "done"
    /\ Len(obj.fields) = 2
    /\ obj.fields[1].args.new
    /\ ~obj.fields[2].args.new
    /\ Len(obj.fields[2].names) = 2
    /\ Cardinality(FieldEvents) = 3
    /\ \A i \in FieldEvents : trace[i].res = "ok"

\* ------------------------------------------------------------------ field attributes: claims

\* The number of args attributes written on the field.
ArgsWritten == Cardinality({i \in 1..Len(field.attrs) : field.attrs[i] = "args"})

\* The field combines args with an attribute args is incompatible with.
CombinesArgs ==
    /\ ArgsWritten > 0
    /\ \E i \in 1..Len(field.attrs) : field.attrs[i] \in Exclusive

\* C19: a field that combines args with default, preserve, transform or
\* transform_with_context is rejected whichever is written first: once all its
\* attributes are read an error was returned, no conversion is generated for
\* it, and a generated conversion passes every args attribute written.
C19_ArgsIncompatible ==
    /\ CombinesArgs =>
          /\ field.conv = ""
          /\ field.rest = <<>> => field.err # ""
    /\ field.conv # "" => field.passed = ArgsWritten

\* ------------------------------------------------------------------ counters, paths and imports: claims

\* Sequence s is a prefix of sequence t.
IsPrefix(s, t) == Len(s) <= Len(t) /\ s = SubSeq(t, 1, Len(s))

\* The layers that are on the stack before and after a step.
Surviving == 1..(IF Len(layers) <= Len(layers') THEN Len(layers) ELSE Len(layers'))

\* C21: while a layer is on the stack its Counter for a kind only grows by
\* appending: in every step the names before are a prefix of the names after,
\* and the Counter grows only in a declaration (new = true) of that kind, by
\* the one name declared.
C21_CounterAppendOnly ==
    [][\A i \in Surviving : \A X \in Identifiable :
          /\ IsPrefix(CounterNames(layers[i], X), CounterNames(layers'[i], X))
          /\ CounterNames(layers'[i], X) # CounterNames(layers[i], X) =>
                /\ last'.op = "convert"
                /\ last'.args.new
                /\ last'.kind = X
                /\ CounterNames(layers'[i], X) = Append(CounterNames(layers[i], X), last'.name)
                /\ i = FindLayer(layers, ScopeOf(X))]_vars

\* A declaration extended a Counter that already held a name.
C21_Witness ==
    /\ last.op = "convert"
    /\ last.args.new
    /\ last.res = "ok"
    /\ last.index = 1
    /\ \E i \in 1..Len(layers) : Len(CounterNames(layers[i], last.kind)) = 2

RECURSIVE Ancestors(_, _, _)
\* The indices returned to the own declarations of the scope objects that
\* enclose a declaration whose scope kind is k, walking upward from the newest
\* instance of k until an instance that has not declared its own id, ordered
\* from the root-most ancestor to the immediate parent.
Ancestors(h, ls, k) ==
    LET i == NewestKeyed(ls, k)
    IN  IF k = Unit \/ i = 0 THEN <<>>
        ELSE IF h[i].own = -1 THEN <<>>
        ELSE Append(Ancestors(h, ls, KindScope(k)), h[i].own)

\* C22: a tracked declaration of kind K is recorded under the path of the
\* indices of the enclosing Current-Declaration records, walked from K's scope
\* kind upward until a kind without a record, root-most ancestor first, as the
\* records stand when it is made; the name is appended to the entry of that
\* path and no other entry changes.
C22_TrackedPath ==
    [][(last'.op = "convert" /\ last'.args.new /\ last'.args.track /\ last'.res = "ok") =>
          LET X   == last'.kind
              p   == Ancestors(hist, layers, KindScope(X))
              old == StoreIds(layers, X)
              new == StoreIds(layers', X)
          IN  /\ p \in DOMAIN new
              /\ new[p] = Append(IF p \in DOMAIN old THEN old[p] ELSE <<>>, last'.name)
              /\ \A q \in DOMAIN new \ {p} : q \in DOMAIN old /\ new[q] = old[q]]_vars

\* A Baz was recorded under a path of two different indices: its Bar was the
\* second one declared, its Qux the first one of that Bar.
C22_Witness ==
    /\ last.op = "convert"
    /\ last.kind = "Baz"
    /\ last.args.track
    /\ last.res = "ok"
    /\ <<1, 0>> \in DOMAIN StoreIds(layers, "Baz")
    /\ StoreIds(layers, "Baz")[<<1, 0>>] = <<last.name>>

\* C27: import supports one level of nested scope.  Every import entry is a
\* one-element path, so a reference resolved through an import, no Counter of
\* its kind being active, returns a handle only for a name persisted under a
\* one-element path, and fails when every path the kind is persisted under has
\* another length (two or more declared ancestors, or none).
C27_OneLevelImport ==
    [][/\ \A i \in 1..Len(layers') : \A K \in DOMAIN layers'[i].import :
             Len(layers'[i].import[K]) = 1
       /\ (last'.op = "convert" /\ ~last'.args.new /\ ~ActiveCounter(layers, last'.kind)) =>
             LET ids == StoreIds(layers, last'.kind)
             IN  /\ last'.res = "ok" =>
                       \E p \in DOMAIN ids :
                           /\ Len(p) = 1
                           /\ last'.name \in Range(ids[p])
                           /\ last'.index = Position(ids[p], last'.name)
                 /\ (\A p \in DOMAIN ids : Len(p) # 1) => last'.res # "ok"]_vars

\* A reference to a Baz persisted under a path of two indices failed although
\* an import entry for Baz was on the stack.
C27_Witness ==
    /\ last.op = "convert"
    /\ last.kind = "Baz"
    /\ ~last.args.new
    /\ last.res = ErrIdNotTracked
    /\ Importing(layers, "Baz") # {}
    /\ \A p \in DOMAIN StoreIds(layers, "Baz") : Len(p) = 2
    /\ \E p \in DOMAIN StoreIds(layers, "Baz") : last.name \in Range(StoreIds(layers, "Baz")[p])

\* The instances on the stack in which a reference imported kind X.
HistImporting(X) == {i \in 1..Len(hist) : X \in DOMAIN hist[i].imp}

\* C26: when several layers hold an import entry for the kind of a reference
\* that no active Counter resolves, only the entry of the innermost of them is
\* used: the reference resolves to the position of its name in the registry
\* entry at that path, fails with "Unknown ID" when the name is missing from
\* that entry whatever the entries at the paths of outer layers hold, and
\* fails as untracked when the registry has no entry at that path.
C26_InnermostImport ==
    [][(/\ last'.op = "convert" /\ ~last'.args.new
        /\ ~ActiveCounter(layers, last'.kind)
        /\ Cardinality(HistImporting(last'.kind)) >= 2) =>
          LET X   == last'.kind
              p   == <<hist[Max(HistImporting(X))].imp[X]>>
              ids == StoreIds(layers, X)
          IN  IF p \notin DOMAIN ids THEN last'.res \in UntrackedScope
              ELSE IF last'.name \in Range(ids[p])
              THEN last'.res = "ok" /\ last'.index = Position(ids[p], last'.name)
              ELSE last'.res = ErrUnknown]_vars

\* A reference failed with "Unknown ID": its name is missing from the registry
\* entry the innermost import leads to and present in the one an outer import
\* leads to.
C26_Witness ==
    /\ last.op = "convert"
    /\ last.kind = "Qux"
    /\ ~last.args.new
    /\ last.res = ErrUnknown
    /\ \E i, j \in Importing(layers, "Qux") :
          /\ i < j
          /\ j = Max(Importing(layers, "Qux"))
          /\ layers[i].import["Qux"] \in DOMAIN StoreIds(layers, "Qux")
          /\ layers[j].import["Qux"] \in DOMAIN StoreIds(layers, "Qux")
          /\ last.name \in Range(StoreIds(layers, "Qux")[layers[i].import["Qux"]])
          /\ last.name \notin Range(StoreIds(layers, "Qux")[layers[j].import["Qux"]])

\* The names persisted for kind X under path p, none when there is no entry.
Persisted(ls, X, p) == IF p \in DOMAIN StoreIds(ls, X) THEN StoreIds(ls, X)[p] ELSE <<>>

\* Every declaration of a log returned a handle.
AllReturned(log) == \A k \in 1..Len(log) : log[k].ret # -1

\* C23: for a Bar instance that declared its own id before its Qux children
\* were converted and whose Qux were all declared with track = true, each
\* declaration returning its handle, the names persisted under the path of
\* the instance are the names of its Counter, in the same order, while it is
\* on the stack and after it closed; so a name resolved through an import of
\* the closed instance yields the handle that its declaration returned.
C23_RegistryMirrorsCounter ==
    /\ \A i \in 1..Len(layers) :
          (/\ layers[i].type_id = "Bar"
           /\ hist[i].own # -1
           /\ AllTracked(hist[i].log["Qux"])
           /\ AllReturned(hist[i].log["Qux"])) =>
              Persisted(layers, "Qux", <<hist[i].own>>) = CounterNames(layers[i], "Qux")
    /\ \A p \in DOMAIN closed :
          AllTracked(closed[p]) =>
              /\ Persisted(layers, "Qux", <<p>>) = LogSeq(closed[p])
              /\ (ImportedFrom(p) /\ NoActiveCounter /\ last.name \in LogNames(closed[p])) =>
                    /\ last.res = "ok"
                    /\ last.index = LogRet(closed[p], last.name)

\* The second Qux of a closed Bar instance, whose registry entry mirrors its
\* Counter, was resolved through an import to the handle of its declaration.
C23_Witness ==
    \E p \in DOMAIN closed :
        /\ ImportedFrom(p) /\ NoActiveCounter
        /\ AllTracked(closed[p])
        /\ Len(closed[p]) = 2
        /\ Persisted(layers, "Qux", <<p>>) = LogSeq(closed[p])
        /\ last.name = closed[p][2].name
        /\ last.res = "ok"
        /\ last.index = closed[p][2].ret

\* For a reference that is a field of the object itself: a successfully
\* resolved reference with import = [K1..Kn] maps each Ki to the one-element
\* path of the resolved index in the Import Table of the layer one position
\* below its own, which is the layer of the enclosing object (the top of the
\* stack when the conversion of the reference starts); the other entries of
\* that table and the tables of all other layers are unchanged, and no other
\* operation changes an Import Table.
DirectImportWrite ==
    [][LET n == Len(layers)
       IN  IF last'.op = "convert" /\ ~last'.args.new /\ last'.res = "ok"
           THEN /\ Len(layers') = n
                /\ layers[n].type_id = calls[Len(calls)].type_id
                /\ calls[Len(calls)].index = n - 1
                /\ DOMAIN layers'[n].import = last'.args.import \cup DOMAIN layers[n].import
                /\ \A K \in last'.args.import : layers'[n].import[K] = <<last'.index>>
                /\ \A K \in DOMAIN layers[n].import \ last'.args.import :
                      layers'[n].import[K] = layers[n].import[K]
                /\ \A i \in 1..(n - 1) : layers'[i].import = layers[i].import
           ELSE /\ \A i \in Surviving : layers'[i].import = layers[i].import
                /\ \A i \in (n + 1)..Len(layers') : layers'[i].import = <<>>]_vars

\* A reference to the second Bar declared imported the scope of Qux into the
\* layer of the object that holds the reference.
DirectImportWritten ==
    /\ last.op = "convert"
    /\ ~last.args.new
    /\ last.args.import = {"Qux"}
    /\ last.res = "ok"
    /\ last.index = 1
    /\ calls # <<>>
    /\ calls[Len(calls)].index = Len(layers) - 1
    /\ layers[Len(layers)].import = [K \in {"Qux"} |-> <<1>>]
    /\ \A i \in 1..(Len(layers) - 1) : layers[i].import = <<>>

\* The step converted a reference, which resolved.
Referred ==
    /\ Len(trace') = Len(trace) + 1
    /\ trace'[Len(trace')].ev = "field"
    /\ ~trace'[Len(trace')].new
    /\ trace'[Len(trace')].res = "ok"

\* The kinds the reference converted by the step imports, and the index it
\* resolved to.
ReferredImport == obj.fields[trace'[Len(trace')].field].args.import
ReferredIndex == Position(CounterNames(layers[1], "Bar"), trace'[Len(trace')].name)

C25_ActiveCounterOnly ==
    [][(last'.op = "convert" /\ ~last'.args.new /\ ActiveCounter(layers, last'.kind)) =>
          LET names == CounterNames(layers[NewestKeyed(layers, KindScope(last'.kind))],
                                    last'.kind)
          IN  IF last'.name \in Range(names)
              THEN last'.res = "ok" /\ last'.index = Position(names, last'.name)
              ELSE last'.res = ErrUnknown]_vars

\* A reference failed with "Unknown ID" against the active Counter although
\* the registry entry an import on the stack leads to holds its name.
C25_Witness ==
    /\ last.op = "convert"
    /\ ~last.args.new
    /\ last.res = ErrUnknown
    /\ ActiveCounter(layers, last.kind)
    /\ ImportedEntry(layers, last.kind)
    /\ last.name \in Range(ImportedNames(layers, last.kind))


\* The layers keyed by k, oldest first.
Keyed(ls, k) == {i \in 1..Len(ls) : ls[i].type_id = k}

\* C28: get(kind_key) answers from the newest layer that has that key and from
\* no other: it returns that layer's slot, or nothing when that layer has no
\* slot (an older layer of the same key may have one) or when no layer has the
\* key.  Closing a scope removes the top layer and leaves the slots of the
\* layers below as they were, so an older layer is read again once the newer
\* one is gone.
C28_GetNewestLayer ==
    [][ /\ last'.op = "get" =>
            LET S == Keyed(layers', last'.kind)
            IN  IF S = {} \/ layers'[Max(S)].current = None
                THEN last'.res = "none"
                ELSE /\ last'.res = "some"
                     /\ last'.index = layers'[Max(S)].current[1].id
        /\ last'.op = "end_scope" =>
            layers' = SubSeq(layers, 1, Len(layers) - 1)
      ]_vars

\* A get found nothing in the newest layer of its key while an older layer of
\* that key holds a value.
C28_Witness ==
    /\ last.op = "get"
    /\ last.res = "none"
    /\ \E j \in Keyed(layers, last.kind) :
          /\ j < Max(Keyed(layers, last.kind))
          /\ layers[j].current # None

\* nth_last_scope(n) for n below the depth of the stack, and for any n in a
\* build without overflow checks: the key n layers below the top, None when
\* there is no such layer.
NthLastScopeUnchecked ==
    [][ (last'.op = "nth_last_scope" /\ (last'.index < Len(layers) \/ build = "release")) =>
            IF last'.index < Len(layers)
            THEN /\ last'.res = "some"
                 /\ last'.kind = layers[Len(layers) - last'.index].type_id
            ELSE last'.res = "none"
      ]_vars

\* C29: nth_last_scope(n) returns the key of the layer n positions below the
\* top when n is less than the depth of the stack, and None when n is the depth
\* or more.
C29_NthLastScope ==
    [][ last'.op = "nth_last_scope" =>
            IF last'.index < Len(layers)
            THEN /\ last'.res = "some"
                 /\ last'.kind = layers[Len(layers) - last'.index].type_id
            ELSE last'.res = "none"
      ]_vars


\* C30: a convert whose conversion fails returns the error without ending its
\* scope, and so does every convert call around it: after the failed top-level
\* call the stack is deeper than before it, by the layer of each call that was
\* in progress, and the layers that were on the stack are still there with
\* their CurrentId slots, Import Tables and registries as they were and their
\* Counters at most extended.
C30_FailedConvertKeepsLayers ==
    [][ (last'.op = "convert" /\ IsErr(last'.res) /\ status' = "running") =>
            /\ calls # <<>>
            /\ calls' = <<>>
            /\ Len(layers') = Len(layers) + 1
            /\ Len(layers') > calls[1].index + 1
            /\ layers'[Len(layers')].type_id = IdType(last'.kind)
            /\ \A k \in 1..Len(calls) :
                  layers'[calls[k].index + 1].type_id = calls[k].type_id
            /\ \A i \in 1..Len(layers) :
                  /\ layers'[i].type_id = layers[i].type_id
                  /\ layers'[i].current = layers[i].current
                  /\ layers'[i].import = layers[i].import
                  /\ layers'[i].store = layers[i].store
                  /\ \A X \in Identifiable :
                        /\ layers[i].counter[X] # None => layers'[i].counter[X] # None
                        /\ IsPrefix(CounterNames(layers[i], X), CounterNames(layers'[i], X))
      ]_vars

\* A reference failed inside an object that had declared identifiers: the
\* call returned to the top level and the object's layer, with its CurrentId
\* and the Counter of the kind it scopes, is still on the stack.
C30_Witness ==
    /\ last.op = "convert"
    /\ IsErr(last.res)
    /\ status = "running"
    /\ calls = <<>>
    /\ Len(layers) >= 3
    /\ \E i \in 2..Len(layers) :
          /\ layers[i].type_id = "Bar"
          /\ layers[i].current # None
          /\ CounterNames(layers[i], "Qux") # <<>>


\* The names persisted for each path of kind X before a step are still
\* there after it, in the same places.
StoreKept(X) ==
    \A p \in DOMAIN StoreIds(layers, X) :
        /\ p \in DOMAIN StoreIds(layers', X)
        /\ IsPrefix(StoreIds(layers, X)[p], StoreIds(layers', X)[p])

\* C31: a failed conversion is not rolled back.  The step that returns the
\* error leaves every layer that was on the stack with the names its Counters
\* held, and the registry with the names it held; and a declaration of the
\* root-scoped kind with a name that was declared before on the context, in a
\* failed attempt or not, fails with "Duplicate ID".
C31_NoRollback ==
    [][ /\ (last'.op = "convert" /\ IsErr(last'.res)) =>
              /\ Len(layers') > Len(layers)
              /\ \A X \in Identifiable :
                    /\ StoreKept(X)
                    /\ \A i \in 1..Len(layers) :
                          IsPrefix(CounterNames(layers[i], X), CounterNames(layers'[i], X))
        /\ (/\ last'.op = "convert"
            /\ last'.args.new
            /\ last'.kind = "Bar"
            /\ <<"Bar", last'.name>> \in everDeclared) =>
              /\ last'.res = ErrDuplicate
              /\ CounterNames(layers'[1], "Bar") = CounterNames(layers[1], "Bar")
      ]_vars

\* A top-level conversion of a Bar failed after it had declared the Bar and a
\* tracked Qux; the conversion was repeated and failed with "Duplicate ID" at
\* the declaration of the Bar, whose name the layer left by the failed attempt
\* still holds as its CurrentId.
C31_Witness ==
    /\ last.op = "convert"
    /\ last.args.new
    /\ last.kind = "Bar"
    /\ last.res = ErrDuplicate
    /\ failures = 2
    /\ Len(layers) = 5
    /\ layers[2].type_id = "Bar"
    /\ layers[2].current # None
    /\ layers[2].current[1].string = last.name
    /\ layers[4].type_id = "Bar"
    /\ layers[4].current = None
    /\ \E p \in DOMAIN StoreIds(layers, "Qux") : StoreIds(layers, "Qux")[p] # <<>>


\* The newest layer keyed by the scope of the kind of the last operation, in
\* the stack before and after the step (the scope kinds never key the layer
\* of an Id).
StepScope == FindLayer(layers, ScopeOf(last'.kind))

\* C32: a declaration checks for a duplicate and appends to the Counter
\* before it looks at the CurrentId of the object.  A declaration that fails
\* with "Multiple new IDs defined" leaves the Counter one longer, with its name
\* at the end; a declaration that succeeds gets the number of names declared
\* before it in the scope instance, those of failed declarations included; and
\* a declaration of a name the Counter holds fails with "Duplicate ID" also when
\* the object has declared its id already.
C32_AppendBeforeCurrentCheck ==
    [][ (last'.op = "convert" /\ last'.args.new /\ StepScope # 0) =>
          LET before == CounterNames(layers[StepScope], last'.kind)
              after  == CounterNames(layers'[StepScope], last'.kind)
          IN  /\ last'.res = ErrMultiple =>
                    /\ after = Append(before, last'.name)
                    /\ last'.index = Len(before)
              /\ last'.res = "ok" =>
                    /\ last'.index = Len(before)
                    /\ last'.index = Len(hist[StepScope].log[last'.kind])
              /\ last'.name \in Range(before) =>
                    /\ last'.res = ErrDuplicate
                    /\ after = before
      ]_vars

\* A declaration got an index that skips the one consumed by a declaration
\* that failed with "Multiple new IDs defined": the name before it in the
\* Counter returned no handle.
C32_Witness ==
    /\ last.op = "convert"
    /\ last.args.new
    /\ last.res = "ok"
    /\ last.kind = "Bar"
    /\ last.index = 2
    /\ CounterNames(layers[1], "Bar")[3] = last.name
    /\ hist[1].log["Bar"][1].ret = 0
    /\ hist[1].log["Bar"][2].ret = -1
    /\ failures = 1

\* A second declaration of an object reused the name it had declared, and
\* failed as a duplicate.
RedeclaredSameName ==
    /\ last.op = "convert"
    /\ last.args.new
    /\ last.res = ErrDuplicate
    /\ FindLayer(layers, last.kind) # 0
    /\ layers[FindLayer(layers, last.kind)].current # None
    /\ layers[FindLayer(layers, last.kind)].current[1].string = last.name


\* C33: the conversion of a reference (new = false) leaves the IdCounter
\* slots and the CurrentId slot of every layer as they were, whether it
\* returns an index or an error, and its own layer has neither; one that
\* returns an error leaves every Import Table as it was, whatever its import
\* list.
C33_ReferenceFrame ==
    [][ (last'.op = "convert" /\ ~last'.args.new) =>
          /\ \A i \in 1..Len(layers) :
                /\ layers'[i].counter = layers[i].counter
                /\ layers'[i].current = layers[i].current
          /\ \A i \in (Len(layers) + 1)..Len(layers') :
                /\ layers'[i].counter = [X \in Identifiable |-> None]
                /\ layers'[i].current = None
          /\ last'.res # "ok" =>
                /\ \A i \in 1..Len(layers) : layers'[i].import = layers[i].import
                /\ \A i \in (Len(layers) + 1)..Len(layers') : layers'[i].import = <<>>
      ]_vars

\* A reference that imports failed inside an object that has declared its id
\* and a child: the layer below the reference's own has no import entry.
C33_Witness ==
    /\ last.op = "convert"
    /\ ~last.args.new
    /\ last.args.import # {}
    /\ IsErr(last.res)
    /\ Len(layers) >= 3
    /\ layers[Len(layers) - 1].import = <<>>
    /\ layers[Len(layers) - 1].current # None
    /\ CounterNames(layers[Len(layers) - 1], "Qux") # <<>>
    /\ CounterNames(layers[1], "Bar") # <<>>


ElementImported ==
    /\ last.op = "convert"
    /\ last.res = "ok"
    /\ last.args.import = {"Qux"}
    /\ Current = VecType
    /\ layers[Len(layers)].type_id = VecType
    /\ layers[Len(layers)].import = [K \in {"Qux"} |-> <<last.index>>]
    /\ layers[Len(layers) - 1].type_id = "Foo"
    /\ layers[Len(layers) - 1].import = <<>>


\* C35: an import of kind K into a layer that holds an entry for K replaces
\* it.  After a successful importing reference the layer below it maps each
\* imported kind to the path of the index just resolved, whatever it mapped
\* the kind to before, and its other entries are as they were; and a reference
\* to K that the object resolves through its own import is looked up in the
\* registry entry of that last index only: a name that is missing there fails
\* with "Unknown ID" even when the entry of an index imported earlier has it.
C35_LastImportWins ==
    [][ /\ (/\ last'.op = "convert"
            /\ ~last'.args.new
            /\ last'.res = "ok") =>
              LET old == layers[Len(layers)].import
                  new == layers'[Len(layers)].import
              IN  /\ DOMAIN new = DOMAIN old \cup last'.args.import
                  /\ \A K \in DOMAIN new :
                        new[K] = IF K \in last'.args.import THEN <<last'.index>> ELSE old[K]
        /\ (/\ last'.op = "convert"
            /\ ~last'.args.new
            /\ ~ActiveCounter(layers, last'.kind)
            /\ last'.kind \in DOMAIN hist[Len(hist)].imp) =>
              LET names == Persisted(layers, last'.kind, <<hist[Len(hist)].imp[last'.kind]>>)
              IN  IF last'.name \in Range(names)
                  THEN last'.res = "ok" /\ last'.index = Position(names, last'.name)
                  ELSE IsErr(last'.res)
      ]_vars

\* An object imported the scope of Qux twice, through references to two Bar
\* instances; a reference to a Qux name that only the first of the two Bar
\* holds failed with "Unknown ID".
C35_Witness ==
    /\ last.op = "convert"
    /\ last.kind = "Qux"
    /\ ~last.args.new
    /\ last.res = ErrUnknown
    /\ Len(layers) >= 3
    /\ layers[Len(layers) - 1].import = [K \in {"Qux"} |-> <<1>>]
    /\ "Qux" \in hist[Len(hist) - 1].was
    /\ last.name \in Range(Persisted(layers, "Qux", <<0>>))
    /\ last.name \notin Range(Persisted(layers, "Qux", <<1>>))
    /\ Persisted(layers, "Qux", <<1>>) # <<>>


\* The walk has looked at the kinds of the scope chain of the declared kind,
\* nearest first and each once, and when it ends the path it has collected is
\* the tracked path.
WalkBounded ==
    walk.at = "walking" =>
        /\ Len(walk.visited) <= Len(ScopeChain(walk.kind))
        /\ walk.visited = SubSeq(ScopeChain(walk.kind), 1, Len(walk.visited))
        /\ Len(walk.parent_ids) = Len(walk.visited)
        /\ Get(layers, walk.next_parent) = None =>
              Reverse(walk.parent_ids) = TrackPath(layers, walk.kind)

\* C36: in a schema whose scope chains repeat no kind, the ancestor walk of a
\* declaration with track = true makes at most one iteration for each kind of
\* the scope chain of the declared kind, and the declaration ends.
C36_WalkTerminates ==
    /\ []WalkBounded
    /\ (walk.at = "walking") ~> (walk.at = "idle")

\* The walk of a Baz declaration has gone up through Qux and Bar, the whole
\* scope chain, and finds no CurrentId in the root layer.
C36_Witness ==
    /\ walk.at = "walking"
    /\ walk.kind = "Baz"
    /\ walk.visited = <<"Qux", "Bar">>
    /\ Len(walk.parent_ids) = 2
    /\ walk.next_parent = Unit
    /\ Get(layers, Unit) = None

\* C37: a position that does not fit a 32-bit unsigned integer is never
\* returned wrapped and never turned into an error value: the declaration of a
\* new name, the resolution of a found name and Id::new abort, a declaration
\* aborts with the counter as long as it was, and a position that fits is
\* returned as it is.
C37_IndexNotTruncated ==
    [][wide'.op \in {"declare", "resolve", "new"} /\ wide' # wide =>
          IF FitsU32(wide'.at)
          THEN wide'.res = "ok" /\ wide'.index = wide'.at /\ status' = status
          ELSE /\ wide'.res \in {PanicTooMany, PanicTooManyIds}
               /\ status' = wide'.res
               /\ wide'.op = "declare" => wide'.at = wide.len /\ wide'.len = wide.len]_vars

\* The declaration of the name after the 2^32 names a counter can hold aborted.
C37_Witness ==
    /\ wide.op = "declare"
    /\ wide.at = Usize(U32Base, 0)
    /\ wide.len = Usize(U32Base, 0)
    /\ status = PanicTooMany

\* A reference found behind u32::MAX in a list of the registry aborted after
\* its import entries were written.
ResolvedBehindMax ==
    /\ wide.op = "resolve"
    /\ wide.list = "store"
    /\ wide.at = Usize(U32Base, 0)
    /\ wide.imported
    /\ status = PanicTooMany

\* C38: a declaration of kind K made while no layer keyed by the scope kind
\* of K is on the stack aborts with the panic of get_mut instead of returning
\* an error value, and registers nothing: the layers that were on the stack
\* are as they were and the layer of the conversion is empty.  In every
\* declaration the slots get_mut creates or changes are in the newest layer
\* keyed by the requested kind: the Counter in the one keyed by the scope kind
\* of K, the CurrentId in the one keyed by K.
C38_NoScopeLayerAborts ==
    [][ (last'.op = "convert" /\ last'.args.new /\ layers' # layers) =>
          LET K == last'.kind
              s == FindLayer(layers, ScopeOf(K))
          IN  /\ s = 0 =>
                    /\ last'.res = PanicNotInStack
                    /\ status' = PanicNotInStack
                    /\ layers' = StartScope(layers, IdType(K))
                    /\ everDeclared' = everDeclared
              /\ \A i \in 1..Len(layers) :
                    /\ layers'[i].type_id = layers[i].type_id
                    /\ \A X \in Identifiable :
                          layers'[i].counter[X] # layers[i].counter[X] =>
                              X = K /\ i = s /\ layers[i].type_id = ScopeOf(K)
                    /\ layers'[i].current # layers[i].current =>
                          i = FindLayer(layers, K) /\ layers[i].type_id = K
              /\ Len(layers') > Len(layers) =>
                    layers'[Len(layers')] = NewLayer(IdType(K)) ]_vars

\* A Qux converted at the top level, with no Bar around it, declared its name
\* and the conversion aborted.
C38_Witness ==
    /\ last.op = "convert"
    /\ last.kind = "Qux"
    /\ last.args.new
    /\ FindLayer(layers, "Bar") = 0
    /\ last.res = PanicNotInStack
    /\ status = PanicNotInStack
    /\ \A i \in 1..Len(layers) : layers[i].counter["Qux"] = None

\* The X object being converted: the position of the layer of the newest
\* convert call of an X in progress, 0 when there is none.
LiveLayer(X) ==
    LET S == {k \in 1..Len(calls) : calls[k].type_id = X}
    IN  IF S = {} THEN 0 ELSE calls[Max(S)].index + 1

\* C39: the conversion of an IdString of kind X returns the name that was
\* given to the declaration of the X object being converted, as the history
\* of the declarations recorded it, and returns an error when the newest layer
\* keyed by X has no CurrentId, no declaration of X having been made in it,
\* or when no layer is keyed by X.
C39_IdStringIsDeclaredName ==
    [][ (last'.op = "id_string" /\ (layers' # layers \/ last' # last)) =>
          LET X == last'.kind
              c == NewestKeyed(layers, X)
              t == NewestKeyed(layers, KindScope(X))
          IN  /\ (c = 0 \/ hist[c].own = -1) <=> last'.res = ErrNoCurrent
              /\ last'.res \in {"ok", ErrNoCurrent}
              /\ last'.res = ErrNoCurrent => status' = "running" /\ calls' = <<>>
              /\ (last'.res = "ok" /\ LiveLayer(X) # 0) =>
                    /\ c = LiveLayer(X)
                    /\ layers' = layers
                    /\ \E i \in 1..Len(hist[t].log[X]) :
                          /\ hist[t].log[X][i].ret = hist[c].own
                          /\ hist[t].log[X][i].name = last'.name ]_vars

\* A Qux declared its name after the Bar around it had declared another, and
\* its IdString is the name of the Qux.
C39_Witness ==
    /\ last.op = "id_string"
    /\ last.kind = "Qux"
    /\ last.res = "ok"
    /\ Current = "Qux"
    /\ LiveLayer("Bar") # 0
    /\ layers[LiveLayer("Bar")].current # None
    /\ layers[LiveLayer("Bar")].current[1].string # last.name
    /\ layers[LiveLayer("Qux")].current[1].string = last.name

\* An IdString converted before the declaration of its object failed although
\* an older layer of the same kind, left by a failed conversion, has a
\* CurrentId.
IdStringBeforeDeclaration ==
    /\ last.op = "id_string"
    /\ last.res = ErrNoCurrent
    /\ \E i \in 1..Len(layers) : layers[i].type_id = last.kind /\ layers[i].current # None

\* The CurrentId of layer i is consistent with the Counter: the Counter of the
\* kind that keys the layer, in the newest layer keyed by the parent kind of
\* the record, holds the original name of the record at its index.
CurrentIdInCounter(ls, i) ==
    LET c == ls[i].current[1]
        K == ls[i].type_id
        s == FindLayer(ls, c.parent)
    IN  /\ s # 0
        /\ c.id < Len(CounterNames(ls[s], K))
        /\ CounterNames(ls[s], K)[c.id + 1] = c.string

\* The layers of the convert calls in progress.
LiveLayers == {calls[k].index + 1 : k \in 1..Len(calls)}

\* C40, as stated: in a schema where no kind nests inside an instance of
\* itself, every CurrentId record on the stack is consistent with the
\* Counter, in every state.
C40_CurrentIdInCounter ==
    \A i \in 1..Len(layers) :
        layers[i].current # None => CurrentIdInCounter(layers, i)

\* C40, amended: in such a schema the CurrentId record of every object whose
\* conversion is in progress is consistent with the Counter, in every state,
\* and so is every CurrentId record on the stack as long as no conversion on
\* the context has failed.
C40_LiveCurrentIdInCounter ==
    \A i \in 1..Len(layers) :
        (layers[i].current # None /\ (i \in LiveLayers \/ failures = 0)) =>
            CurrentIdInCounter(layers, i)

\* A Bar converted after a failed conversion has declared its name, and the
\* Qux layer the failed conversion left holds a CurrentId whose name is not in
\* the Counter of the new Bar.
C40_Witness ==
    \E i, j \in 1..Len(layers) :
        /\ j < i
        /\ i \in LiveLayers
        /\ layers[i].type_id = "Bar" /\ layers[i].current # None
        /\ CurrentIdInCounter(layers, i)
        /\ j \notin LiveLayers
        /\ layers[j].type_id = "Qux" /\ layers[j].current # None
        /\ ~CurrentIdInCounter(layers, j)

\* A Bar and a Qux in it, the second of its Bar, are being converted and have
\* declared their names.
SecondQuxDeclared ==
    \E i, j \in LiveLayers :
        /\ i < j
        /\ layers[i].type_id = "Bar" /\ layers[i].current # None
        /\ layers[j].type_id = "Qux" /\ layers[j].current # None
        /\ layers[j].current[1].id > 0

====
